---- MODULE Spec2Model ----
(***************************************************************************)
(* Ledger and stock-movement bookkeeping of the billing backend:           *)
(* products, raw materials, invoices (sales), purchases, production        *)
(* batches, payments, the settlement of document status and the stock      *)
(* movement audit trail.                                                   *)
(*                                                                         *)
(* Money and quantities are integers (whole currency units / whole stock   *)
(* units); cost_per_unit is kept in hundredths because the code rounds it  *)
(* to two decimals.  An id is the row's position in its table; 0 stands    *)
(* for None.                                                               *)
(***************************************************************************)
EXTENDS Integers, Sequences, FiniteSets, TLC

\* ------------------------------------------------------------------ bounds
MaxProducts == 2
MaxRawMaterials == 2
MaxInvoices == 1
MaxPurchases == 1
MaxBatches == 1
MaxPayments == 2
MaxItems == 2
MaxMovements == 2
MaxAccountDocuments == 2
MaxClock == 604

\* ------------------------------------------------------------ input domains
Companies == {"A", "B"}
Quantities == {-1, 1, 2}
QuantitiesProduced == {0, 1, 2}
ProductIds == 1..2
RawMaterialIds == 1..2
InvoiceIds == 0..2
PurchaseIds == 0..1
Sessions == {1, 2}
StockValues == {0, 2}
Prices == {1}
CostPrices == {1, 2}
Discounts == {0, 1}
TaxPercents == {0}
Amounts == {-1, 1, 2}
PaymentTypes == {"received", "refund"}
InvoiceStatuses == {"unpaid", "partially_paid", "paid", "cancelled"}

VALID_MOVEMENT_TYPES == {"purchase", "production_in", "production_out", "sale", "adjustment"}

VARIABLES
    products,           \* Seq of [company_id, price, stock]
    rawMaterials,       \* Seq of [company_id, stock_quantity, cost_price]
    customers,          \* Seq of [company_id]
    suppliers,          \* Seq of [company_id]
    invoices,           \* Seq of [company_id, customer_id, invoice_number, total, status, created_at]
    invoiceItems,       \* Seq of [invoice_id, product_id, quantity, unit_price]
    purchases,          \* Seq of [company_id, supplier_id, purchase_number, total_amount, status, created_at]
    purchaseItems,      \* Seq of [purchase_id, raw_material_id, quantity, cost_price]
    productionBatches,  \* Seq of [company_id, batch_number, finished_product_id, quantity_produced, total_cost, cost_per_unit]
    productionItems,    \* Seq of [production_batch_id, raw_material_id, quantity_used]
    payments,           \* Seq of [company_id, customer_id, invoice_id, supplier_id, purchase_id, amount, payment_type, created_at]
    stockMovements,     \* Seq of [company_id, product_id, raw_material_id, movement_type, quantity_change, reference_type, reference_id]
    last,               \* the last request served: [op, code, company_id, req]
    reqs,               \* per concurrent session: its receive_payment request in flight
    sessionStore,       \* whatsapp_state._sessions: phone -> UserSession, or no entry
    clock               \* time.time(), in seconds

tables == <<products, rawMaterials, customers, suppliers, invoices, invoiceItems,
            purchases, purchaseItems, productionBatches, productionItems,
            payments, stockMovements>>
vars == <<products, rawMaterials, customers, suppliers, invoices, invoiceItems,
          purchases, purchaseItems, productionBatches, productionItems,
          payments, stockMovements, last, reqs, sessionStore, clock>>
\* the chat side: the conversation store and the clock it reads
chat == <<sessionStore, clock>>

\* ------------------------------------------------------------- the database
\* The committed content of all tables, as one value a session starts from.
Database ==
    [products |-> products, rawMaterials |-> rawMaterials,
     customers |-> customers, suppliers |-> suppliers,
     invoices |-> invoices, invoiceItems |-> invoiceItems,
     purchases |-> purchases, purchaseItems |-> purchaseItems,
     productionBatches |-> productionBatches, productionItems |-> productionItems,
     payments |-> payments, stockMovements |-> stockMovements]

\* A session: c is what is committed, s what the session sees (flushed, pending).
Begin(db) == [c |-> db, s |-> db]
Commit(tx) == [c |-> tx.s, s |-> tx.s]
\* The request's session is closed without commit when the handler raises.
Rollback(tx) == [c |-> tx.c, s |-> tx.c]

\* The tables after a request whose session ended as tx.
Persist(tx) ==
    /\ products' = tx.c.products
    /\ rawMaterials' = tx.c.rawMaterials
    /\ customers' = tx.c.customers
    /\ suppliers' = tx.c.suppliers
    /\ invoices' = tx.c.invoices
    /\ invoiceItems' = tx.c.invoiceItems
    /\ purchases' = tx.c.purchases
    /\ purchaseItems' = tx.c.purchaseItems
    /\ productionBatches' = tx.c.productionBatches
    /\ productionItems' = tx.c.productionItems
    /\ payments' = tx.c.payments
    /\ stockMovements' = tx.c.stockMovements

\* --------------------------------------------------------------- responses
\* What a handler answers: the HTTP status code, the error detail with the
\* entity and the quantity it names, and the id of the returned document.
\* Code 0 inside a handler means "no error so far".
Ok == [code |-> 0, detail |-> "", ref |-> 0, avail |-> 0]
Err(code, detail, ref, avail) == [code |-> code, detail |-> detail, ref |-> ref, avail |-> avail]
Done(code, id, tx) == [e |-> [Ok EXCEPT !.code = code], id |-> id, tx |-> tx]
Fail(e, tx) == [e |-> e, id |-> 0, tx |-> tx]

\* ------------------------------------------------------------------ queries
\* the lookup by id alone, without the tenant filter
FoundById(table, id, company_id) == id \in 1..Len(table) /\ table[id].company_id # ""

\* db.query(T).filter(T.id == id, T.company_id == company_id).first() is not None
Owned(table, id, company_id) ==
    /\ id \in 1..Len(table)
    /\ table[id].company_id = company_id

\* models.utcnow, the default of every created_at column: the clock read at
\* an insert, later than every timestamp stored before it.  Only the order of
\* the timestamps matters, so the clock counts the dated rows.
utcnow(db) == Len(db.invoices) + Len(db.purchases) + Len(db.payments) + 1

\* db.query(T).filter(T.company_id == company_id).count()
CountOf(table, company_id) ==
    Cardinality({i \in 1..Len(table) : table[i].company_id = company_id})

\* ---------------------------------------------------------- stock movements
\* the logging that checks the movement type and not which entity is named
log_stock_movement_any_entity(tx, company_id, product_id, raw_material_id, movement_type, quantity_change, reference_type, reference_id) ==
    IF movement_type \notin VALID_MOVEMENT_TYPES
    THEN [err |-> TRUE, tx |-> tx]
    ELSE [err |-> FALSE,
          tx |-> [tx EXCEPT !.s.stockMovements = Append(@,
                    [company_id |-> company_id,
                     product_id |-> product_id,
                     raw_material_id |-> raw_material_id,
                     movement_type |-> movement_type,
                     quantity_change |-> quantity_change,
                     reference_type |-> reference_type,
                     reference_id |-> reference_id])]]

\* log_stock_movement: stages one row in the caller's session, never commits.
\* err is TRUE where the code raises ValueError.
log_stock_movement(tx, company_id, product_id, raw_material_id, movement_type, quantity_change, reference_type, reference_id) ==
    IF movement_type \notin VALID_MOVEMENT_TYPES
    THEN [err |-> TRUE, tx |-> tx]
    ELSE IF product_id # 0 /\ raw_material_id # 0
    THEN [err |-> TRUE, tx |-> tx]
    ELSE IF product_id = 0 /\ raw_material_id = 0
    THEN [err |-> TRUE, tx |-> tx]
    ELSE [err |-> FALSE,
          tx |-> [tx EXCEPT !.s.stockMovements = Append(@,
                    [company_id |-> company_id,
                     product_id |-> product_id,
                     raw_material_id |-> raw_material_id,
                     movement_type |-> movement_type,
                     quantity_change |-> quantity_change,
                     reference_type |-> reference_type,
                     reference_id |-> reference_id])]]

\* ------------------------------------------------- products / raw materials
\* POST /api/products: the row is the payload; no stock movement is staged.
create_product(db, company_id, payload) ==
    LET tx == Begin(db)
        row == [company_id |-> company_id, price |-> payload.price, stock |-> payload.stock]
    IN Done(201, Len(db.products) + 1, Commit([tx EXCEPT !.s.products = Append(@, row)]))

\* PUT /api/products/{id}: every field the payload sets is written to the row.
update_product(db, company_id, product_id, payload) ==
    LET tx == Begin(db) IN
    IF ~Owned(db.products, product_id, company_id)
    THEN Fail(Err(404, "Product not found", 0, 0), Rollback(tx))
    ELSE LET old == db.products[product_id]
             row == [old EXCEPT
                        !.price = IF "price" \in payload.set THEN payload.price ELSE @,
                        !.stock = IF "stock" \in payload.set THEN payload.stock ELSE @]
         IN Done(200, product_id, Commit([tx EXCEPT !.s.products[product_id] = row]))

\* POST /api/raw-materials
create_raw_material(db, company_id, data) ==
    LET tx == Begin(db)
        row == [company_id |-> company_id, stock_quantity |-> data.stock_quantity,
                cost_price |-> data.cost_price]
    IN Done(201, Len(db.rawMaterials) + 1, Commit([tx EXCEPT !.s.rawMaterials = Append(@, row)]))

\* PUT /api/raw-materials/{id}: RawMaterialUpdate carries no stock_quantity.
update_raw_material(db, company_id, rm_id, data) ==
    LET tx == Begin(db) IN
    IF ~Owned(db.rawMaterials, rm_id, company_id)
    THEN Fail(Err(404, "Raw material not found", 0, 0), Rollback(tx))
    ELSE Done(200, rm_id,
              Commit([tx EXCEPT !.s.rawMaterials[rm_id].cost_price = data.cost_price]))

\* ------------------------------------------------------------------ deletes
\* Ids are positions in the tables, so a deleted row keeps its position and
\* belongs to no tenant: no query filtered by company_id finds it again.
Deleted(row) == [row EXCEPT !.company_id = ""]

\* some row of the table references the id in the given foreign-key column
Referenced(table, field, id) == \E k \in 1..Len(table) : table[k][field] = id

\* the foreign keys on products.id: invoice_items.product_id,
\* production_batches.finished_product_id, stock_movements.product_id
product_referenced(db, product_id) ==
    \/ Referenced(db.invoiceItems, "product_id", product_id)
    \/ Referenced(db.productionBatches, "finished_product_id", product_id)
    \/ Referenced(db.stockMovements, "product_id", product_id)

\* the foreign keys on raw_materials.id
raw_material_referenced(db, rm_id) ==
    \/ Referenced(db.purchaseItems, "raw_material_id", rm_id)
    \/ Referenced(db.productionItems, "raw_material_id", rm_id)
    \/ Referenced(db.stockMovements, "raw_material_id", rm_id)

\* the delete that takes the product's stock movements with it
delete_product_cascading(db, company_id, product_id) ==
    LET tx == Begin(db) IN
    IF ~Owned(db.products, product_id, company_id)
    THEN Fail(Err(404, "Product not found", 0, 0), Rollback(tx))
    ELSE Done(204, product_id,
              Commit([tx EXCEPT
                        !.s.products[product_id] = Deleted(@),
                        !.s.stockMovements =
                            SelectSeq(@, LAMBDA row : row.product_id # product_id)]))

\* DELETE /api/products/{id}: no column that references products.id is
\* nullable or cascades, so the store refuses the delete of a referenced row.
delete_product(db, company_id, product_id) ==
    LET tx == Begin(db) IN
    IF ~Owned(db.products, product_id, company_id)
    THEN Fail(Err(404, "Product not found", 0, 0), Rollback(tx))
    ELSE IF product_referenced(db, product_id)
    THEN Fail(Err(500, "IntegrityError", product_id, 0), Rollback(tx))
    ELSE Done(204, product_id, Commit([tx EXCEPT !.s.products[product_id] = Deleted(@)]))

\* DELETE /api/raw-materials/{id}
delete_raw_material(db, company_id, rm_id) ==
    LET tx == Begin(db) IN
    IF ~Owned(db.rawMaterials, rm_id, company_id)
    THEN Fail(Err(404, "Raw material not found", 0, 0), Rollback(tx))
    ELSE IF raw_material_referenced(db, rm_id)
    THEN Fail(Err(500, "IntegrityError", rm_id, 0), Rollback(tx))
    ELSE Done(204, rm_id, Commit([tx EXCEPT !.s.rawMaterials[rm_id] = Deleted(@)]))

\* the unit of work's handling of a one-to-many relationship without a delete
\* cascade: the children of the deleted parent get a NULL foreign key
Nullified(table, field, id) ==
    [k \in 1..Len(table) |->
        IF table[k][field] = id THEN [table[k] EXCEPT ![field] = 0] ELSE table[k]]

\* DELETE /api/customers/{id}: Customer.invoices and Customer.payments carry
\* no delete cascade and both foreign keys are nullable, so the invoices and
\* the payments of the customer stay, with customer_id NULL.
delete_customer(db, company_id, customer_id) ==
    LET tx == Begin(db) IN
    IF ~Owned(db.customers, customer_id, company_id)
    THEN Fail(Err(404, "Customer not found", 0, 0), Rollback(tx))
    ELSE Done(200, customer_id,
              Commit([tx EXCEPT
                        !.s.customers[customer_id] = Deleted(@),
                        !.s.invoices = Nullified(@, "customer_id", customer_id),
                        !.s.payments = Nullified(@, "customer_id", customer_id)]))

\* DELETE /api/suppliers/{id}: purchases.supplier_id is NOT NULL, so the
\* delete of a supplier with purchases fails in the store; the payments of a
\* supplier without purchases stay, with supplier_id NULL.
delete_supplier(db, company_id, supplier_id) ==
    LET tx == Begin(db) IN
    IF ~Owned(db.suppliers, supplier_id, company_id)
    THEN Fail(Err(404, "Supplier not found", 0, 0), Rollback(tx))
    ELSE IF Referenced(db.purchases, "supplier_id", supplier_id)
    THEN Fail(Err(500, "IntegrityError", supplier_id, 0), Rollback(tx))
    ELSE Done(204, supplier_id,
              Commit([tx EXCEPT
                        !.s.suppliers[supplier_id] = Deleted(@),
                        !.s.payments = Nullified(@, "supplier_id", supplier_id)]))

\* ------------------------------------------------------------ sale (invoice)
\* the loop pass with a commit after every line
sale_line_committed(tx, company_id, invoice_id, item) ==
    LET product == tx.s.products[item.product_id]
        tx1 == [tx EXCEPT
                  !.s.invoiceItems = Append(@,
                      [invoice_id |-> invoice_id, product_id |-> item.product_id,
                       quantity |-> item.quantity, unit_price |-> product.price,
                       total_price |-> product.price * item.quantity]),
                  !.s.products[item.product_id].stock = @ - item.quantity]
        lg == log_stock_movement(tx1, company_id, item.product_id, 0, "sale",
                                 0 - item.quantity, "invoice", invoice_id)
    IN [err |-> lg.err, tx |-> Commit(lg.tx)]

\* the loop pass that logs the sale and leaves the stock as it was
sale_line_stock_kept(tx, company_id, invoice_id, item) ==
    LET product == tx.s.products[item.product_id]
        tx1 == [tx EXCEPT
                  !.s.invoiceItems = Append(@,
                      [invoice_id |-> invoice_id, product_id |-> item.product_id,
                       quantity |-> item.quantity, unit_price |-> product.price,
                       total_price |-> product.price * item.quantity])]
    IN log_stock_movement(tx1, company_id, item.product_id, 0, "sale",
                          0 - item.quantity, "invoice", invoice_id)

\* One pass of the line-item loop of create_invoice once the product is found
\* and its stock suffices: stage the InvoiceItem, deduct the stock, stage the
\* sale movement.
sale_line(tx, company_id, invoice_id, item) ==
    LET product == tx.s.products[item.product_id]
        line_total == product.price * item.quantity
        tx1 == [tx EXCEPT
                  !.s.invoiceItems = Append(@,
                      [invoice_id |-> invoice_id, product_id |-> item.product_id,
                       quantity |-> item.quantity, unit_price |-> product.price,
                       total_price |-> line_total]),
                  !.s.products[item.product_id].stock = @ - item.quantity]
    IN log_stock_movement(tx1, company_id, item.product_id, 0, "sale",
                          0 - item.quantity, "invoice", invoice_id)

RECURSIVE invoice_items_loop(_, _, _, _, _, _)
\* for item in payload.items: ... ; code 0 means the loop ran to its end
invoice_items_loop(tx, company_id, invoice_id, items, i, subtotal) ==
    IF i > Len(items)
    THEN [e |-> Ok, tx |-> tx, subtotal |-> subtotal]
    ELSE LET item == items[i] IN
         IF ~Owned(tx.s.products, item.product_id, company_id)
         THEN [e |-> Err(404, "Product not found", item.product_id, 0),
               tx |-> tx, subtotal |-> subtotal]
         ELSE IF tx.s.products[item.product_id].stock < item.quantity
         THEN [e |-> Err(400, "Insufficient stock", item.product_id,
                         tx.s.products[item.product_id].stock),
               tx |-> tx, subtotal |-> subtotal]
         ELSE LET lg == sale_line(tx, company_id, invoice_id, item)
                  line_total == tx.s.products[item.product_id].price * item.quantity
              IN IF lg.err
                 THEN [e |-> Err(500, "ValueError", 0, 0), tx |-> lg.tx, subtotal |-> subtotal]
                 ELSE invoice_items_loop(lg.tx, company_id, invoice_id, items,
                                         i + 1, subtotal + line_total)

\* _next_invoice_number: the tenant's invoice count plus one
next_invoice_number(db, company_id) == CountOf(db.invoices, company_id) + 1

\* POST /api/invoices
create_invoice(db, company_id, payload) ==
    LET tx == Begin(db) IN
    IF payload.items = <<>>
    THEN Fail(Err(400, "Invoice must have at least one item", 0, 0), Rollback(tx))
    ELSE IF payload.customer_id # 0 /\ ~Owned(db.customers, payload.customer_id, company_id)
    THEN Fail(Err(404, "Customer not found", 0, 0), Rollback(tx))
    ELSE
    LET row == [company_id |-> company_id, customer_id |-> payload.customer_id,
                invoice_number |-> next_invoice_number(db, company_id),
                total |-> 0, status |-> "unpaid", created_at |-> utcnow(db)]
        tx1 == [tx EXCEPT !.s.invoices = Append(@, row)]
        invoice_id == Len(tx1.s.invoices)
        r == invoice_items_loop(tx1, company_id, invoice_id, payload.items, 1, 0)
    IN IF r.e.code # 0
       THEN Fail(r.e, Rollback(r.tx))
       ELSE LET tax_amount == (r.subtotal * payload.tax_percent) \div 100
                total == r.subtotal + tax_amount - payload.discount
            IN Done(201, invoice_id,
                    Commit([r.tx EXCEPT !.s.invoices[invoice_id].total = total]))

\* PATCH /api/invoices/{id}/status
update_invoice_status(db, company_id, invoice_id, new_status) ==
    LET tx == Begin(db) IN
    IF ~Owned(db.invoices, invoice_id, company_id)
    THEN Fail(Err(404, "Invoice not found", 0, 0), Rollback(tx))
    ELSE Done(200, invoice_id,
              Commit([tx EXCEPT !.s.invoices[invoice_id].status = new_status]))

\* ------------------------------------------------------------------ purchase
\* the loop pass that leaves the material's cost_price as it was
purchase_line_cost_kept(tx, company_id, purchase_id, item) ==
    LET tx1 == [tx EXCEPT
                  !.s.purchaseItems = Append(@,
                      [purchase_id |-> purchase_id,
                       raw_material_id |-> item.raw_material_id,
                       quantity |-> item.quantity, cost_price |-> item.cost_price,
                       total |-> item.quantity * item.cost_price]),
                  !.s.rawMaterials[item.raw_material_id].stock_quantity = @ + item.quantity]
    IN log_stock_movement(tx1, company_id, 0, item.raw_material_id, "purchase",
                          item.quantity, "purchase", purchase_id)

\* One pass of the line-item loop of create_purchase once the raw material is
\* found: stage the PurchaseItem, raise the stock, overwrite cost_price, stage
\* the purchase movement.
purchase_line(tx, company_id, purchase_id, item) ==
    LET tx1 == [tx EXCEPT
                  !.s.purchaseItems = Append(@,
                      [purchase_id |-> purchase_id,
                       raw_material_id |-> item.raw_material_id,
                       quantity |-> item.quantity, cost_price |-> item.cost_price,
                       total |-> item.quantity * item.cost_price]),
                  !.s.rawMaterials[item.raw_material_id].stock_quantity = @ + item.quantity,
                  !.s.rawMaterials[item.raw_material_id].cost_price = item.cost_price]
    IN log_stock_movement(tx1, company_id, 0, item.raw_material_id, "purchase",
                          item.quantity, "purchase", purchase_id)

RECURSIVE purchase_items_loop(_, _, _, _, _, _)
purchase_items_loop(tx, company_id, purchase_id, items, i, total_amount) ==
    IF i > Len(items)
    THEN [e |-> Ok, tx |-> tx, total_amount |-> total_amount]
    ELSE LET item == items[i] IN
         IF ~Owned(tx.s.rawMaterials, item.raw_material_id, company_id)
         THEN [e |-> Err(404, "Raw material not found", item.raw_material_id, 0),
               tx |-> tx, total_amount |-> total_amount]
         ELSE LET lg == purchase_line(tx, company_id, purchase_id, item)
              IN IF lg.err
                 THEN [e |-> Err(500, "ValueError", 0, 0), tx |-> lg.tx,
                       total_amount |-> total_amount]
                 ELSE purchase_items_loop(lg.tx, company_id, purchase_id, items, i + 1,
                                          total_amount + item.quantity * item.cost_price)

\* services.create_purchase
create_purchase(db, company_id, data) ==
    LET tx == Begin(db) IN
    IF ~Owned(db.suppliers, data.supplier_id, company_id)
    THEN Fail(Err(404, "Supplier not found", 0, 0), Rollback(tx))
    ELSE IF data.items = <<>>
    THEN Fail(Err(422, "At least one item is required", 0, 0), Rollback(tx))
    ELSE
    LET row == [company_id |-> company_id, supplier_id |-> data.supplier_id,
                purchase_number |-> CountOf(db.purchases, company_id) + 1,
                total_amount |-> 0, status |-> "unpaid", created_at |-> utcnow(db)]
        tx1 == [tx EXCEPT !.s.purchases = Append(@, row)]
        purchase_id == Len(tx1.s.purchases)
        r == purchase_items_loop(tx1, company_id, purchase_id, data.items, 1, 0)
    IN IF r.e.code # 0
       THEN Fail(r.e, Rollback(r.tx))
       ELSE Done(201, purchase_id,
                 Commit([r.tx EXCEPT
                           !.s.purchases[purchase_id].total_amount = r.total_amount]))

\* ---------------------------------------------------------------- production
\* the quotient cut off after the second decimal
cost_per_unit_truncated(total_cost, quantity_produced) ==
    (100 * total_cost) \div quantity_produced

\* round(total_cost / quantity_produced, 2), in hundredths (ties to even),
\* for quantity_produced > 0
cost_per_unit_of(total_cost, quantity_produced) ==
    LET n == 100 * total_cost
        q == n \div quantity_produced
        r == n % quantity_produced
    IN IF 2 * r < quantity_produced THEN q
       ELSE IF 2 * r > quantity_produced THEN q + 1
       ELSE IF q % 2 = 0 THEN q ELSE q + 1

\* the loop pass with a commit after every consumed material
consume_line_committed(tx, company_id, batch_id, item) ==
    LET tx1 == [tx EXCEPT
                  !.s.rawMaterials[item.raw_material_id].stock_quantity = @ - item.quantity_used,
                  !.s.productionItems = Append(@,
                      [production_batch_id |-> batch_id,
                       raw_material_id |-> item.raw_material_id,
                       quantity_used |-> item.quantity_used])]
        lg == log_stock_movement(tx1, company_id, 0, item.raw_material_id, "production_out",
                                 0 - item.quantity_used, "production_batch", batch_id)
    IN [err |-> lg.err, tx |-> Commit(lg.tx)]

\* One pass of the raw-material loop of create_production_batch once the
\* material is found and its stock suffices: deduct the stock, stage the
\* ProductionItem, stage the production_out movement.
consume_line(tx, company_id, batch_id, item) ==
    LET tx1 == [tx EXCEPT
                  !.s.rawMaterials[item.raw_material_id].stock_quantity = @ - item.quantity_used,
                  !.s.productionItems = Append(@,
                      [production_batch_id |-> batch_id,
                       raw_material_id |-> item.raw_material_id,
                       quantity_used |-> item.quantity_used])]
    IN log_stock_movement(tx1, company_id, 0, item.raw_material_id, "production_out",
                          0 - item.quantity_used, "production_batch", batch_id)

RECURSIVE production_items_loop_per_line(_, _, _, _, _, _)
\* the loop that holds every line against the stock stored before the batch
production_items_loop_per_line(tx, company_id, batch_id, items, i, total_cost) ==
    IF i > Len(items)
    THEN [e |-> Ok, tx |-> tx, total_cost |-> total_cost]
    ELSE LET item == items[i] IN
         IF ~Owned(tx.s.rawMaterials, item.raw_material_id, company_id)
         THEN [e |-> Err(404, "Raw material not found", item.raw_material_id, 0),
               tx |-> tx, total_cost |-> total_cost]
         ELSE IF tx.c.rawMaterials[item.raw_material_id].stock_quantity < item.quantity_used
         THEN [e |-> Err(422, "Insufficient stock", item.raw_material_id,
                         tx.c.rawMaterials[item.raw_material_id].stock_quantity),
               tx |-> tx, total_cost |-> total_cost]
         ELSE LET lg == consume_line(tx, company_id, batch_id, item)
                  item_cost == item.quantity_used
                               * tx.s.rawMaterials[item.raw_material_id].cost_price
              IN IF lg.err
                 THEN [e |-> Err(500, "ValueError", 0, 0), tx |-> lg.tx,
                       total_cost |-> total_cost]
                 ELSE production_items_loop_per_line(lg.tx, company_id, batch_id, items,
                                                     i + 1, total_cost + item_cost)

RECURSIVE production_items_loop(_, _, _, _, _, _)
production_items_loop(tx, company_id, batch_id, items, i, total_cost) ==
    IF i > Len(items)
    THEN [e |-> Ok, tx |-> tx, total_cost |-> total_cost]
    ELSE LET item == items[i] IN
         IF ~Owned(tx.s.rawMaterials, item.raw_material_id, company_id)
         THEN [e |-> Err(404, "Raw material not found", item.raw_material_id, 0),
               tx |-> tx, total_cost |-> total_cost]
         ELSE IF tx.s.rawMaterials[item.raw_material_id].stock_quantity < item.quantity_used
         THEN [e |-> Err(422, "Insufficient stock", item.raw_material_id,
                         tx.s.rawMaterials[item.raw_material_id].stock_quantity),
               tx |-> tx, total_cost |-> total_cost]
         ELSE LET lg == consume_line(tx, company_id, batch_id, item)
                  item_cost == item.quantity_used
                               * tx.s.rawMaterials[item.raw_material_id].cost_price
              IN IF lg.err
                 THEN [e |-> Err(500, "ValueError", 0, 0), tx |-> lg.tx,
                       total_cost |-> total_cost]
                 ELSE production_items_loop(lg.tx, company_id, batch_id, items, i + 1,
                                            total_cost + item_cost)

\* the tail that logs production_in and leaves the product's stock as it was
produce_finished_stock_kept(tx, company_id, batch_id, data, total_cost) ==
    LET tx1 == [tx EXCEPT
                  !.s.productionBatches[batch_id].total_cost = total_cost,
                  !.s.productionBatches[batch_id].cost_per_unit =
                      cost_per_unit_of(total_cost, data.quantity_produced)]
    IN log_stock_movement(tx1, company_id, data.finished_product_id, 0, "production_in",
                          data.quantity_produced, "production_batch", batch_id)

\* The tail of create_production_batch: raise the finished product's stock,
\* write the batch costs, stage the production_in movement.
produce_finished(tx, company_id, batch_id, data, total_cost) ==
    LET tx1 == [tx EXCEPT
                  !.s.products[data.finished_product_id].stock = @ + data.quantity_produced,
                  !.s.productionBatches[batch_id].total_cost = total_cost,
                  !.s.productionBatches[batch_id].cost_per_unit =
                      cost_per_unit_of(total_cost, data.quantity_produced)]
    IN log_stock_movement(tx1, company_id, data.finished_product_id, 0, "production_in",
                          data.quantity_produced, "production_batch", batch_id)

\* services.create_production_batch
create_production_batch(db, company_id, data) ==
    LET tx == Begin(db) IN
    IF ~Owned(db.products, data.finished_product_id, company_id)
    THEN Fail(Err(404, "Finished product not found", 0, 0), Rollback(tx))
    ELSE IF data.items = <<>>
    THEN Fail(Err(422, "At least one raw material item is required", 0, 0), Rollback(tx))
    ELSE IF data.quantity_produced <= 0
    THEN Fail(Err(422, "Quantity produced must be positive", 0, 0), Rollback(tx))
    ELSE
    LET row == [company_id |-> company_id,
                batch_number |-> CountOf(db.productionBatches, company_id) + 1,
                finished_product_id |-> data.finished_product_id,
                quantity_produced |-> data.quantity_produced,
                total_cost |-> 0, cost_per_unit |-> 0]
        tx1 == [tx EXCEPT !.s.productionBatches = Append(@, row)]
        batch_id == Len(tx1.s.productionBatches)
        r == production_items_loop(tx1, company_id, batch_id, data.items, 1, 0)
    IN IF r.e.code # 0
       THEN Fail(r.e, Rollback(r.tx))
       ELSE LET lg == produce_finished(r.tx, company_id, batch_id, data, r.total_cost)
            IN IF lg.err
               THEN Fail(Err(500, "ValueError", 0, 0), Rollback(lg.tx))
               ELSE Done(201, batch_id, Commit(lg.tx))

\* ------------------------------------------------------------------ payments
RECURSIVE SumAmounts(_, _, _, _, _)
\* func.coalesce(func.sum(Payment.amount), 0) filtered by one document column
\* (field = "invoice_id" or "purchase_id") and one payment_type
SumAmounts(pmts, field, doc_id, payment_type, i) ==
    IF i > Len(pmts) THEN 0
    ELSE (IF pmts[i][field] = doc_id /\ pmts[i].payment_type = payment_type
          THEN pmts[i].amount ELSE 0)
         + SumAmounts(pmts, field, doc_id, payment_type, i + 1)

\* net_paid as computed for an invoice: received minus refund
invoice_net_paid(db, invoice_id) ==
    SumAmounts(db.payments, "invoice_id", invoice_id, "received", 1)
    - SumAmounts(db.payments, "invoice_id", invoice_id, "refund", 1)

\* net_paid as computed for a purchase: paid minus supplier_refund
purchase_net_paid(db, purchase_id) ==
    SumAmounts(db.payments, "purchase_id", purchase_id, "paid", 1)
    - SumAmounts(db.payments, "purchase_id", purchase_id, "supplier_refund", 1)

\* the mapping that takes a document for paid only above its total
status_of_above_total(net_paid, total) ==
    IF net_paid > total THEN "paid"
    ELSE IF net_paid > 0 THEN "partially_paid"
    ELSE "unpaid"

\* the threshold mapping shared by _update_invoice_status / _update_purchase_status
status_of(net_paid, total) ==
    IF net_paid >= total THEN "paid"
    ELSE IF net_paid > 0 THEN "partially_paid"
    ELSE "unpaid"

\* the recomputation that also writes the balance left into the total
update_invoice_status_writing_balance(tx, invoice_id) ==
    IF invoice_id \notin 1..Len(tx.s.invoices) THEN tx
    ELSE LET net_paid == invoice_net_paid(tx.s, invoice_id)
             total == tx.s.invoices[invoice_id].total
         IN [tx EXCEPT !.s.invoices[invoice_id].status = status_of(net_paid, total),
                       !.s.invoices[invoice_id].total = total - net_paid]

\* _update_invoice_status: the invoice is looked up by id alone
update_invoice_status_from_payments(tx, invoice_id) ==
    IF invoice_id \notin 1..Len(tx.s.invoices) THEN tx
    ELSE [tx EXCEPT !.s.invoices[invoice_id].status =
              status_of(invoice_net_paid(tx.s, invoice_id), tx.s.invoices[invoice_id].total)]

\* _update_purchase_status
update_purchase_status_from_payments(tx, purchase_id) ==
    IF purchase_id \notin 1..Len(tx.s.purchases) THEN tx
    ELSE [tx EXCEPT !.s.purchases[purchase_id].status =
              status_of(purchase_net_paid(tx.s, purchase_id),
                        tx.s.purchases[purchase_id].total_amount)]

\* the comparison with the boundary moved: a payment up to the total is refused
exceeds_total_or_equals(net_paid, amount, total) == (net_paid + amount) >= total

\* the overpayment comparison of receive_payment and pay_supplier
exceeds_total(net_paid, amount, total) == (net_paid + amount) > total

\* receive_payment up to the overpayment check: the validation and the reads
\* of the payment sums; code 0 means the checks passed
receive_payment_check(db, company_id, data) ==
    IF ~Owned(db.customers, data.customer_id, company_id)
    THEN Err(404, "Customer not found", 0, 0)
    ELSE IF data.invoice_id = 0
    THEN Ok
    ELSE IF ~Owned(db.invoices, data.invoice_id, company_id)
    THEN Err(404, "Invoice not found", 0, 0)
    ELSE LET invoice == db.invoices[data.invoice_id]
             net_paid == invoice_net_paid(db, data.invoice_id)
         IN IF invoice.customer_id # 0 /\ invoice.customer_id # data.customer_id
            THEN Err(400, "Invoice does not belong to this customer", 0, 0)
            ELSE IF data.payment_type = "received"
                    /\ exceeds_total(net_paid, data.amount, invoice.total)
            THEN Err(400, "Overpayment", data.invoice_id, invoice.total - net_paid)
            ELSE Ok

\* the write that recomputes every invoice, not only the one paid
receive_payment_write_recomputing_all(tx, company_id, data) ==
    LET row == [company_id |-> company_id, customer_id |-> data.customer_id,
                invoice_id |-> data.invoice_id, supplier_id |-> 0, purchase_id |-> 0,
                amount |-> data.amount, payment_type |-> data.payment_type,
                created_at |-> utcnow(tx.s)]
        tx1 == [tx EXCEPT !.s.payments = Append(@, row)]
    IN Commit(update_invoice_status_from_payments(
                  update_invoice_status_from_payments(tx1, 1), 2))

\* receive_payment from the Payment row on: insert, flush, recompute, commit
receive_payment_write(tx, company_id, data) ==
    LET row == [company_id |-> company_id, customer_id |-> data.customer_id,
                invoice_id |-> data.invoice_id, supplier_id |-> 0, purchase_id |-> 0,
                amount |-> data.amount, payment_type |-> data.payment_type,
                created_at |-> utcnow(tx.s)]
        tx1 == [tx EXCEPT !.s.payments = Append(@, row)]
    IN Commit(IF data.invoice_id # 0
              THEN update_invoice_status_from_payments(tx1, data.invoice_id)
              ELSE tx1)

\* ledger_service.receive_payment, served alone
receive_payment(db, company_id, data) ==
    LET tx == Begin(db)
        chk == receive_payment_check(tx.s, company_id, data)
    IN IF chk.code # 0
       THEN Fail(chk, Rollback(tx))
       ELSE Done(200, Len(db.payments) + 1, receive_payment_write(tx, company_id, data))

\* pay_supplier up to the overpayment check
pay_supplier_check(db, company_id, data) ==
    IF ~Owned(db.suppliers, data.supplier_id, company_id)
    THEN Err(404, "Supplier not found", 0, 0)
    ELSE IF data.purchase_id = 0
    THEN Ok
    ELSE IF ~Owned(db.purchases, data.purchase_id, company_id)
    THEN Err(404, "Purchase not found", 0, 0)
    ELSE LET purchase == db.purchases[data.purchase_id]
             net_paid == purchase_net_paid(db, data.purchase_id)
         IN IF purchase.supplier_id # data.supplier_id
            THEN Err(400, "Purchase does not belong to this supplier", 0, 0)
            ELSE IF exceeds_total(net_paid, data.amount, purchase.total_amount)
            THEN Err(400, "Overpayment", data.purchase_id, purchase.total_amount - net_paid)
            ELSE Ok

\* pay_supplier from the Payment row on; the type is always "paid"
pay_supplier_write(tx, company_id, data) ==
    LET row == [company_id |-> company_id, customer_id |-> 0, invoice_id |-> 0,
                supplier_id |-> data.supplier_id, purchase_id |-> data.purchase_id,
                amount |-> data.amount, payment_type |-> "paid",
                created_at |-> utcnow(tx.s)]
        tx1 == [tx EXCEPT !.s.payments = Append(@, row)]
    IN Commit(IF data.purchase_id # 0
              THEN update_purchase_status_from_payments(tx1, data.purchase_id)
              ELSE tx1)

\* ledger_service.pay_supplier
pay_supplier(db, company_id, data) ==
    LET tx == Begin(db)
        chk == pay_supplier_check(tx.s, company_id, data)
    IN IF chk.code # 0
       THEN Fail(chk, Rollback(tx))
       ELSE Done(200, Len(db.payments) + 1, pay_supplier_write(tx, company_id, data))

\* ------------------------------------------------------------ request inputs
ItemSeqs(S) == UNION {[1..n -> S] : n \in 0..MaxItems}

ProductPayloads == [price : Prices, stock : StockValues]
ProductUpdates == [set : {{"price"}, {"stock"}}, price : Prices, stock : StockValues]
RawMaterialPayloads == [stock_quantity : StockValues, cost_price : CostPrices]
InvoicePayloads ==
    [customer_id : {0, 1, 3}, tax_percent : TaxPercents, discount : Discounts,
     items : ItemSeqs([product_id : ProductIds, quantity : Quantities])]
PurchasePayloads ==
    [supplier_id : {1, 3},
     items : ItemSeqs([raw_material_id : RawMaterialIds, quantity : Quantities,
                       cost_price : CostPrices])]
BatchPayloads ==
    [finished_product_id : ProductIds, quantity_produced : QuantitiesProduced,
     items : ItemSeqs([raw_material_id : RawMaterialIds, quantity_used : Quantities])]
PaymentPayloads ==
    [customer_id : 1..3, invoice_id : InvoiceIds, amount : Amounts,
     payment_type : PaymentTypes]
SupplierPaymentPayloads ==
    [supplier_id : 1..3, purchase_id : PurchaseIds, amount : Amounts]

\* --------------------------------------------------------------------- Init
\* Two tenants; customers 1, 2 and suppliers 1, 2 are tenant A's, customer 3
\* and supplier 3 tenant B's.  Every other table is empty.
NoResponse == [op |-> "none", code |-> 0, detail |-> "", ref |-> 0, avail |-> 0, id |-> 0]

Idle == [pc |-> "idle", company_id |-> "", data |-> <<>>, seen |-> 0]

\* ------------------------------------------------------------------ ledgers
\* the ids of the rows of a table that pass a filter (`keep`: the ids that
\* pass), in table order; rows are inserted in clock order, so this is also
\* ORDER BY created_at
RowIds(table, keep) ==
    SelectSeq([k \in 1..Len(table) |-> k], LAMBDA k : k \in keep)

RECURSIVE SumColumn(_, _, _, _)
\* func.coalesce(func.sum(column), 0) over the rows with the given ids
SumColumn(table, ids, column, i) ==
    IF i > Len(ids) THEN 0
    ELSE table[ids[i]][column] + SumColumn(table, ids, column, i + 1)

\* the rows in the order of the two loops, not of the clock
transactions_unsorted(rows, i, sorted) == rows

RECURSIVE sorted_insert(_, _, _)
\* t placed behind every row whose sort_key is not later than its own
sorted_insert(rows, t, i) ==
    IF i > Len(rows) \/ rows[i].sort_key > t.sort_key
    THEN SubSeq(rows, 1, i - 1) \o <<t>> \o SubSeq(rows, i, Len(rows))
    ELSE sorted_insert(rows, t, i + 1)

RECURSIVE sort_by_key(_, _, _)
\* transactions.sort(key=lambda t: t["sort_key"]): ascending and stable
sort_by_key(rows, i, sorted) ==
    IF i > Len(rows) THEN sorted
    ELSE sort_by_key(rows, i + 1, sorted_insert(sorted, rows[i], 1))

RECURSIVE stamp_running_balance(_, _, _)
\* for t in transactions: balance += debit - credit; the row gets the balance
\* and loses its sort_key
stamp_running_balance(rows, i, balance) ==
    IF i > Len(rows) THEN <<>>
    ELSE LET t == rows[i]
             b == balance + t.debit - t.credit
         IN <<[f \in (DOMAIN t \ {"sort_key"}) \cup {"running_balance"} |->
                 IF f = "running_balance" THEN b ELSE t[f]]>>
            \o stamp_running_balance(rows, i + 1, b)

RECURSIVE sum_of_any_type(_, _, _, _)
\* the sum of a column over every row, whatever its type
sum_of_any_type(rows, column, type, i) ==
    IF i > Len(rows) THEN 0
    ELSE rows[i][column] + sum_of_any_type(rows, column, type, i + 1)

RECURSIVE sum_of_type(_, _, _, _)
\* sum(t[column] for t in transactions if t["type"] == type)
sum_of_type(rows, column, type, i) ==
    IF i > Len(rows) THEN 0
    ELSE (IF rows[i].type = type THEN rows[i][column] ELSE 0)
         + sum_of_type(rows, column, type, i + 1)

\* the payment rows of a ledger: the forward type is a credit, every other
\* type a debit
payment_transactions(db, ids, forward, document) ==
    [k \in 1..Len(ids) |->
        LET pmt == db.payments[ids[k]] IN
        [date |-> pmt.created_at,
         type |-> IF pmt.payment_type = forward THEN "payment" ELSE "refund",
         reference |-> ids[k],
         document_id |-> pmt[document],
         debit |-> IF pmt.payment_type = forward THEN 0 ELSE pmt.amount,
         credit |-> IF pmt.payment_type = forward THEN pmt.amount ELSE 0,
         sort_key |-> pmt.created_at]]

\* ledger_service.get_customer_ledger
get_customer_ledger(db, company_id, customer_id) ==
    IF ~Owned(db.customers, customer_id, company_id)
    THEN [code |-> 404, detail |-> "Customer not found"]
    ELSE
    LET invoices_ == RowIds(db.invoices,
                        {inv \in DOMAIN db.invoices : db.invoices[inv].customer_id = customer_id
                                     /\ db.invoices[inv].status # "cancelled"})
        payments_ == RowIds(db.payments, {pmt \in DOMAIN db.payments : db.payments[pmt].customer_id = customer_id})
        documents == [k \in 1..Len(invoices_) |->
                        LET inv == db.invoices[invoices_[k]] IN
                        [date |-> inv.created_at, type |-> "invoice",
                         reference |-> inv.invoice_number,
                         document_id |-> invoices_[k],
                         debit |-> inv.total, credit |-> 0,
                         sort_key |-> inv.created_at]]
        appended == documents
                    \o payment_transactions(db, payments_, "received", "invoice_id")
        transactions == stamp_running_balance(sort_by_key(appended, 1, <<>>), 1, 0)
        total_invoiced == sum_of_type(transactions, "debit", "invoice", 1)
        total_paid == sum_of_type(transactions, "credit", "payment", 1)
        total_refunded == sum_of_type(transactions, "debit", "refund", 1)
    IN [code |-> 200, detail |-> "",
        summary |-> [total_billed |-> total_invoiced, total_paid |-> total_paid,
                     total_refunded |-> total_refunded,
                     outstanding |-> total_invoiced - total_paid + total_refunded],
        transactions |-> transactions,
        unpaid |-> SelectSeq(invoices_, LAMBDA k :
                       db.invoices[k].status \in {"unpaid", "partially_paid"})]

\* ledger_service.get_supplier_ledger
get_supplier_ledger(db, company_id, supplier_id) ==
    IF ~Owned(db.suppliers, supplier_id, company_id)
    THEN [code |-> 404, detail |-> "Supplier not found"]
    ELSE
    LET purchases_ == RowIds(db.purchases, {pur \in DOMAIN db.purchases : db.purchases[pur].supplier_id = supplier_id})
        payments_ == RowIds(db.payments, {pmt \in DOMAIN db.payments : db.payments[pmt].supplier_id = supplier_id})
        documents == [k \in 1..Len(purchases_) |->
                        LET pur == db.purchases[purchases_[k]] IN
                        [date |-> pur.created_at, type |-> "purchase",
                         reference |-> pur.purchase_number,
                         document_id |-> purchases_[k],
                         debit |-> pur.total_amount, credit |-> 0,
                         sort_key |-> pur.created_at]]
        appended == documents
                    \o payment_transactions(db, payments_, "paid", "purchase_id")
        transactions == stamp_running_balance(sort_by_key(appended, 1, <<>>), 1, 0)
        total_purchased == sum_of_type(transactions, "debit", "purchase", 1)
        total_paid == sum_of_type(transactions, "credit", "payment", 1)
        total_refunded == sum_of_type(transactions, "debit", "refund", 1)
    IN [code |-> 200, detail |-> "",
        summary |-> [total_billed |-> total_purchased, total_paid |-> total_paid,
                     total_refunded |-> total_refunded,
                     outstanding |-> total_purchased - total_paid + total_refunded],
        transactions |-> transactions,
        unpaid |-> SelectSeq(purchases_, LAMBDA k :
                       db.purchases[k].status \in {"unpaid", "partially_paid"})]

\* ledger_service.get_customers_with_balances: one entry per customer of the
\* tenant (in table order; names are not modelled)
get_customers_with_balances(db, company_id) ==
    LET customers_ == RowIds(db.customers, {cust \in DOMAIN db.customers : db.customers[cust].company_id = company_id})
    IN [k \in 1..Len(customers_) |->
           LET id == customers_[k]
               invoiced == SumColumn(db.invoices,
                               RowIds(db.invoices,
                                      {inv \in DOMAIN db.invoices : db.invoices[inv].customer_id = id
                                                   /\ db.invoices[inv].status # "cancelled"}),
                               "total", 1)
               paid == SumColumn(db.payments,
                           RowIds(db.payments,
                                  {pmt \in DOMAIN db.payments : db.payments[pmt].customer_id = id
                                               /\ db.payments[pmt].payment_type = "received"}),
                           "amount", 1)
               refunded == SumColumn(db.payments,
                               RowIds(db.payments,
                                      {pmt \in DOMAIN db.payments : db.payments[pmt].customer_id = id
                                                   /\ db.payments[pmt].payment_type = "refund"}),
                               "amount", 1)
               total_paid == paid - refunded
           IN [id |-> id, total_billed |-> invoiced, total_paid |-> total_paid,
               outstanding |-> invoiced - total_paid]]

\* ledger_service.get_suppliers_with_balances
get_suppliers_with_balances(db, company_id) ==
    LET suppliers_ == RowIds(db.suppliers, {sup \in DOMAIN db.suppliers : db.suppliers[sup].company_id = company_id})
    IN [k \in 1..Len(suppliers_) |->
           LET id == suppliers_[k]
               purchased == SumColumn(db.purchases,
                                RowIds(db.purchases, {pur \in DOMAIN db.purchases : db.purchases[pur].supplier_id = id}),
                                "total_amount", 1)
               paid == SumColumn(db.payments,
                           RowIds(db.payments,
                                  {pmt \in DOMAIN db.payments : db.payments[pmt].supplier_id = id
                                               /\ db.payments[pmt].payment_type = "paid"}),
                           "amount", 1)
               refunded == SumColumn(db.payments,
                               RowIds(db.payments,
                                      {pmt \in DOMAIN db.payments : db.payments[pmt].supplier_id = id
                                                   /\ db.payments[pmt].payment_type = "supplier_refund"}),
                               "amount", 1)
               total_paid == paid - refunded
           IN [id |-> id, total_billed |-> purchased, total_paid |-> total_paid,
               outstanding |-> purchased - total_paid]]

\* --------------------------------------------------- WhatsApp conversations
SESSION_TIMEOUT == 300

Phones == {"p1", "p2"}
Intents == {"REVENUE", "INVOICE_SEND"}
Awaited == {"period", "customer_name"}
\* messages as they are after text.strip().lower(): a period, a name, a letter
Texts == {"7", "month", "ravi", "x"}
TextLen == [cmd \in Texts |-> CASE cmd = "7" -> 1 [] cmd = "month" -> 5
                                [] cmd = "ravi" -> 4 [] cmd = "x" -> 1]
\* period_map.get(cmd), "" for None
period_map(cmd) == CASE cmd = "7" -> "7" [] cmd = "month" -> "30" [] OTHER -> ""

\* the store with no entry
NoSessions == [phone \in {} |-> 0]

\* _sessions.pop(phone, None)
clear_session(store, phone) == [q \in DOMAIN store \ {phone} |-> store[q]]

\* _sessions[phone] = UserSession(..., timestamp=time.time())
set_session(store, now, phone, intent, awaiting) ==
    [q \in DOMAIN store \cup {phone} |->
        IF q = phone
        THEN [pending_intent |-> intent, awaiting |-> awaiting, timestamp |-> now]
        ELSE store[q]]

\* the lookup that never lets a session expire
get_session_without_expiry(store, now, phone) ==
    IF phone \notin DOMAIN store
    THEN [found |-> FALSE, store |-> store]
    ELSE [found |-> TRUE, session |-> store[phone], store |-> store]

\* whatsapp_state.get_session: the session, if any, and the store afterwards
get_session(store, now, phone) ==
    IF phone \notin DOMAIN store
    THEN [found |-> FALSE, store |-> store]
    ELSE IF now - store[phone].timestamp > SESSION_TIMEOUT
    THEN [found |-> FALSE, store |-> clear_session(store, phone)]
    ELSE [found |-> TRUE, session |-> store[phone], store |-> store]

\* whatsapp_state.resolve_follow_up: (intent, value) or None, and the store
\* afterwards
resolve_follow_up(store, now, phone, cmd) ==
    LET got == get_session(store, now, phone) IN
    IF ~got.found
    THEN [found |-> FALSE, store |-> got.store]
    ELSE LET session == got.session
             cleared == clear_session(got.store, phone)
         IN IF session.awaiting = "period" /\ period_map(cmd) # ""
            THEN [found |-> TRUE, intent |-> session.pending_intent,
                  value |-> period_map(cmd), store |-> cleared]
            ELSE IF session.awaiting = "customer_name" /\ TextLen[cmd] >= 2
            THEN [found |-> TRUE, intent |-> session.pending_intent,
                  value |-> cmd, store |-> cleared]
            ELSE [found |-> FALSE, store |-> cleared]

EmptyDb ==
    [products |-> <<>>, rawMaterials |-> <<>>,
     customers |-> <<[company_id |-> "A"], [company_id |-> "A"], [company_id |-> "B"]>>,
     suppliers |-> <<[company_id |-> "A"], [company_id |-> "A"], [company_id |-> "B"]>>,
     invoices |-> <<>>, invoiceItems |-> <<>>,
     purchases |-> <<>>, purchaseItems |-> <<>>,
     productionBatches |-> <<>>, productionItems |-> <<>>,
     payments |-> <<>>, stockMovements |-> <<>>]

StartFrom(db) ==
    /\ products = db.products
    /\ rawMaterials = db.rawMaterials
    /\ customers = db.customers
    /\ suppliers = db.suppliers
    /\ invoices = db.invoices
    /\ invoiceItems = db.invoiceItems
    /\ purchases = db.purchases
    /\ purchaseItems = db.purchaseItems
    /\ productionBatches = db.productionBatches
    /\ productionItems = db.productionItems
    /\ payments = db.payments
    /\ stockMovements = db.stockMovements
    /\ last = NoResponse
    /\ reqs = [s \in Sessions |-> Idle]
    /\ sessionStore = NoSessions
    /\ clock = 0

Init == StartFrom(EmptyDb)

\* The books once documents exist and before any payment: tenant A has sold
\* `sold` units of a product of price 1 to customer `customer_id` (0: an invoice
\* carrying a customer name only) and bought 2 units of a raw material at cost 1
\* from supplier 1; tenant B has sold 1 unit to its customer 3.  Built with the
\* handlers themselves, so it is a state the system reaches.
BooksWith(customer_id, sold, discount) ==
    LET d1 == create_product(EmptyDb, "A", [price |-> 1, stock |-> 5]).tx.c
        d2 == create_product(d1, "B", [price |-> 1, stock |-> 5]).tx.c
        d3 == create_raw_material(d2, "A", [stock_quantity |-> 0, cost_price |-> 1]).tx.c
        d4 == create_invoice(d3, "A",
                  [customer_id |-> customer_id, tax_percent |-> 0, discount |-> discount,
                   items |-> <<[product_id |-> 1, quantity |-> sold]>>]).tx.c
        d5 == create_invoice(d4, "B",
                  [customer_id |-> 3, tax_percent |-> 0, discount |-> 0,
                   items |-> <<[product_id |-> 2, quantity |-> 1]>>]).tx.c
        d6 == create_purchase(d5, "A",
                  [supplier_id |-> 1,
                   items |-> <<[raw_material_id |-> 1, quantity |-> 2,
                                cost_price |-> 1]>>]).tx.c
    IN d6

\* the books with tenant A's invoice at no discount
Books(customer_id, sold) == BooksWith(customer_id, sold, 0)

InitLedger == \E customer_id \in {0, 1}, sold \in {2, 3} : StartFrom(Books(customer_id, sold))

\* ------------------------------------------------------------------ actions
\* One request served from start to end: the tables become what the request
\* committed, and `last` is its response.
Serve(op, r) ==
    /\ Persist(r.tx)
    /\ last' = [op |-> op, code |-> r.e.code, detail |-> r.e.detail,
                ref |-> r.e.ref, avail |-> r.e.avail, id |-> r.id]
    /\ UNCHANGED <<reqs, chat>>

CreateProduct ==
    /\ Len(products) < MaxProducts
    /\ \E c \in Companies, payload \in ProductPayloads :
          Serve("create_product", create_product(Database, c, payload))

UpdateProduct ==
    \E c \in Companies, id \in ProductIds, payload \in ProductUpdates :
        Serve("update_product", update_product(Database, c, id, payload))

CreateRawMaterial ==
    /\ Len(rawMaterials) < MaxRawMaterials
    /\ \E c \in Companies, data \in RawMaterialPayloads :
          Serve("create_raw_material", create_raw_material(Database, c, data))

UpdateRawMaterial ==
    \E c \in Companies, id \in RawMaterialIds, data \in [cost_price : CostPrices] :
        Serve("update_raw_material", update_raw_material(Database, c, id, data))

CreateInvoice ==
    /\ Len(invoices) < MaxInvoices
    /\ \E c \in Companies, payload \in InvoicePayloads :
          Serve("create_invoice", create_invoice(Database, c, payload))

UpdateInvoiceStatus ==
    \E c \in Companies, id \in InvoiceIds \ {0}, new_status \in InvoiceStatuses :
        Serve("update_invoice_status", update_invoice_status(Database, c, id, new_status))

CreatePurchase ==
    /\ Len(purchases) < MaxPurchases
    /\ \E c \in Companies, data \in PurchasePayloads :
          Serve("create_purchase", create_purchase(Database, c, data))

CreateProductionBatch ==
    /\ Len(productionBatches) < MaxBatches
    /\ \E c \in Companies, data \in BatchPayloads :
          Serve("create_production_batch", create_production_batch(Database, c, data))

ReceivePayment ==
    /\ Len(payments) < MaxPayments
    /\ \E c \in Companies, data \in PaymentPayloads :
          Serve("receive_payment", receive_payment(Database, c, data))

PaySupplier ==
    /\ Len(payments) < MaxPayments
    /\ \E c \in Companies, data \in SupplierPaymentPayloads :
          Serve("pay_supplier", pay_supplier(Database, c, data))

Next ==
    \/ CreateProduct
    \/ UpdateProduct
    \/ CreateRawMaterial
    \/ UpdateRawMaterial
    \/ CreateInvoice
    \/ UpdateInvoiceStatus
    \/ CreatePurchase
    \/ CreateProductionBatch
    \/ ReceivePayment
    \/ PaySupplier

Spec == Init /\ [][Next]_vars

\* ------------------------------------------ concurrent receive_payment
\* Two sessions serve receive_payment at the same time.  A session first runs
\* the validation and reads the payment sums (RaceCheck), later inserts the
\* Payment, recomputes the status and commits (RaceCommit).  The handler takes
\* no row lock, so between the two steps the other session may commit.  What
\* the store does with the second commit depends on its isolation level, which
\* the engine configuration decides: it either lets it through (RaceCommit) or
\* fails it with a serialization error (RaceAbort).
InFlight == Cardinality({s \in Sessions : reqs[s].pc = "checked"})

RaceCheck(s) ==
    /\ reqs[s].pc = "idle"
    /\ Len(payments) + InFlight < MaxPayments
    /\ \E c \in Companies, data \in PaymentPayloads :
          LET chk == receive_payment_check(Database, c, data) IN
          IF chk.code # 0
          THEN /\ last' = [op |-> "receive_payment", code |-> chk.code,
                           detail |-> chk.detail, ref |-> chk.ref,
                           avail |-> chk.avail, id |-> 0]
               /\ UNCHANGED <<tables, reqs, chat>>
          ELSE /\ reqs' = [reqs EXCEPT ![s] = [pc |-> "checked", company_id |-> c,
                                               data |-> data, seen |-> Len(payments)]]
               /\ UNCHANGED <<tables, last, chat>>

RaceCommit(s) ==
    /\ reqs[s].pc = "checked"
    /\ Persist(receive_payment_write(Begin(Database), reqs[s].company_id, reqs[s].data))
    /\ last' = [op |-> "receive_payment", code |-> 200, detail |-> "", ref |-> 0,
                avail |-> 0, id |-> Len(payments) + 1]
    /\ reqs' = [reqs EXCEPT ![s] = Idle]
    /\ UNCHANGED chat

RaceAbort(s) ==
    /\ reqs[s].pc = "checked"
    /\ Len(payments) > reqs[s].seen
    /\ last' = [op |-> "receive_payment", code |-> 500, detail |-> "serialization failure",
                ref |-> 0, avail |-> 0, id |-> 0]
    /\ reqs' = [reqs EXCEPT ![s] = Idle]
    /\ UNCHANGED <<tables, chat>>

\* ------------------------------------------------------------ specifications
\* The sales desk: products and invoices.
NextSale ==
    \/ CreateProduct
    \/ UpdateProduct
    \/ CreateInvoice

SpecSale == Init /\ [][NextSale]_vars

\* The stores once raw materials exist: material 1 is tenant A's, material 2
\* is tenant `owner`'s, both at cost 1.  Built with the handler.
Stores(owner, stock_quantity) ==
    LET d1 == create_raw_material(EmptyDb, "A",
                  [stock_quantity |-> stock_quantity, cost_price |-> 1]).tx.c
        d2 == create_raw_material(d1, owner, [stock_quantity |-> 2, cost_price |-> 1]).tx.c
    IN d2

\* The stores with one finished product for each tenant.
Workshop(owner, stock_quantity) ==
    LET d1 == create_product(Stores(owner, stock_quantity), "A", [price |-> 1, stock |-> 0]).tx.c
        d2 == create_product(d1, "B", [price |-> 1, stock |-> 0]).tx.c
    IN d2

InitPurchase ==
    \E owner \in Companies, stock_quantity \in StockValues :
        StartFrom(Stores(owner, stock_quantity))

InitProduction ==
    \E owner \in Companies, stock_quantity \in StockValues :
        StartFrom(Workshop(owner, stock_quantity))

\* Purchasing: purchases of the raw materials in the stores.
NextPurchase ==
    \/ UpdateRawMaterial
    \/ CreatePurchase

SpecPurchase == InitPurchase /\ [][NextPurchase]_vars

\* The shop floor: production batches from the raw materials in the stores.
NextProduction ==
    \/ UpdateRawMaterial
    \/ CreateProductionBatch

SpecProduction == InitProduction /\ [][NextProduction]_vars

\* The cash desk: payments against the documents on the books, and the manual
\* status endpoint.
NextLedger ==
    \/ ReceivePayment
    \/ PaySupplier

SpecLedger == InitLedger /\ [][NextLedger]_vars

\* The cash desk with the manual status endpoint.
NextStatus ==
    \/ ReceivePayment
    \/ UpdateInvoiceStatus

SpecStatus == StartFrom(Books(1, 2)) /\ [][NextStatus]_vars

\* Two receive_payment requests in flight at once.
NextRace ==
    \/ \E s \in Sessions : RaceCheck(s)
    \/ \E s \in Sessions : RaceCommit(s)
    \/ \E s \in Sessions : RaceAbort(s)

SpecRace == InitLedger /\ [][NextRace]_vars

\* ------------------------------------------------------- the settlement
\* The cash desk on books where tenant A's invoice of 2 units is discounted
\* by 0 or by 2, so its total is 2 or 0.
InitSettle == \E discount \in {0, 2} : StartFrom(BooksWith(1, 2, discount))

NextSettle ==
    \/ ReceivePayment
    \/ PaySupplier

SpecSettle == InitSettle /\ [][NextSettle]_vars

\* The cash desk for customers and suppliers with the manual status endpoint.
NextCounter ==
    \/ ReceivePayment
    \/ PaySupplier
    \/ UpdateInvoiceStatus

SpecCounter == StartFrom(Books(1, 2)) /\ [][NextCounter]_vars

\* ------------------------------------------------- the audit trail at work
DeleteProduct ==
    \E c \in Companies, id \in ProductIds :
        Serve("delete_product", delete_product(Database, c, id))

DeleteRawMaterial ==
    \E c \in Companies, id \in RawMaterialIds :
        Serve("delete_raw_material", delete_raw_material(Database, c, id))

\* The stores with two products of tenant A in stock.
Warehouse ==
    LET d1 == create_product(Stores("A", 2), "A", [price |-> 1, stock |-> 2]).tx.c
        d2 == create_product(d1, "A", [price |-> 1, stock |-> 2]).tx.c
    IN d2

\* Production, which writes stock movements of products and of raw
\* materials, next to the edits of the stock and the deletes of the entities
\* the movements reference.
NextAudit ==
    \/ CreateProductionBatch
    \/ UpdateProduct
    \/ DeleteProduct
    \/ DeleteRawMaterial

SpecAudit == StartFrom(Warehouse) /\ [][NextAudit]_vars

\* ------------------------------------------------- log_stock_movement alone
\* The arguments a caller may hand to log_stock_movement; "transfer" stands
\* for any movement type outside VALID_MOVEMENT_TYPES.
MovementTypes == VALID_MOVEMENT_TYPES \cup {"transfer"}

MovementArgs ==
    [product_id : {0, 1}, raw_material_id : {0, 1}, movement_type : MovementTypes,
     quantity_change : {-1, 2}]

\* A caller that logs one movement in a session of its own and commits; the
\* ValueError of log_stock_movement ends the session without commit.
log_one_movement(db, company_id, a) ==
    LET lg == log_stock_movement(Begin(db), company_id, a.product_id, a.raw_material_id,
                                 a.movement_type, a.quantity_change, "adjustment", 0)
    IN IF lg.err
       THEN Fail(Err(500, "ValueError", 0, 0), Rollback(lg.tx))
       ELSE Done(200, Len(db.stockMovements) + 1, Commit(lg.tx))

LogStockMovement ==
    /\ Len(stockMovements) < MaxMovements
    /\ \E c \in Companies, a \in MovementArgs :
          Serve("log_stock_movement", log_one_movement(Database, c, a))

NextMovement ==
    \/ LogStockMovement

SpecMovement == StartFrom(Workshop("A", 0)) /\ [][NextMovement]_vars

\* ====================================================================
\* Properties
\* ====================================================================
RECURSIVE SumSeq(_, _)
\* the sum of a sequence of integers
SumSeq(q, i) == IF i > Len(q) THEN 0 ELSE q[i] + SumSeq(q, i + 1)

\* quantity_change of every movement that references the entity, 0 elsewhere
MovementChanges(movs, field, id) ==
    [i \in 1..Len(movs) |-> IF movs[i][field] = id THEN movs[i].quantity_change ELSE 0]

LedgerSum(movs, field, id) == SumSeq(MovementChanges(movs, field, id), 1)

\* net paid of a document as the ledger defines it: the forward payments
\* linked to it minus the reversals linked to it
SignedAmounts(pmts, field, id, forward, reversal) ==
    [i \in 1..Len(pmts) |->
        IF pmts[i][field] # id THEN 0
        ELSE IF pmts[i].payment_type = forward THEN pmts[i].amount
        ELSE IF pmts[i].payment_type = reversal THEN 0 - pmts[i].amount
        ELSE 0]

InvoiceNetPaid(pmts, id) ==
    SumSeq(SignedAmounts(pmts, "invoice_id", id, "received", "refund"), 1)

PurchaseNetPaid(pmts, id) ==
    SumSeq(SignedAmounts(pmts, "purchase_id", id, "paid", "supplier_refund"), 1)

DerivedStatus(net_paid, total) ==
    CASE net_paid >= total -> "paid"
      [] net_paid > 0 /\ net_paid < total -> "partially_paid"
      [] OTHER -> "unpaid"

\* C1: in every reachable state the stored stock of every product and of
\* every raw material equals the sum of quantity_change over the stock
\* movements that reference it.
C1_StockEqualsLedgerSum ==
    /\ \A p \in 1..Len(products) :
          products[p].stock = LedgerSum(stockMovements, "product_id", p)
    /\ \A m \in 1..Len(rawMaterials) :
          rawMaterials[m].stock_quantity = LedgerSum(stockMovements, "raw_material_id", m)

\* C2: in every reachable state every non-cancelled invoice and every
\* purchase carries the status derived from its payment history.
C2_StatusMatchesPayments ==
    /\ \A i \in 1..Len(invoices) :
          invoices[i].status # "cancelled" =>
              invoices[i].status =
                  DerivedStatus(InvoiceNetPaid(payments, i), invoices[i].total)
    /\ \A u \in 1..Len(purchases) :
          purchases[u].status =
              DerivedStatus(PurchaseNetPaid(payments, u), purchases[u].total_amount)

\* C3: after any sequence of accepted payments the net paid amount of every
\* invoice and of every purchase is at most the document's total.
C3_NetPaidWithinTotal ==
    /\ \A i \in 1..Len(invoices) :
          InvoiceNetPaid(payments, i) <= invoices[i].total
    /\ \A u \in 1..Len(purchases) :
          PurchaseNetPaid(payments, u) <= purchases[u].total_amount

\* a request that names a customer and an invoice of the tenant that go together
AddressesInvoice(c, data) ==
    /\ data.customer_id \in 1..Len(customers)
    /\ customers[data.customer_id].company_id = c
    /\ data.invoice_id \in 1..Len(invoices)
    /\ invoices[data.invoice_id].company_id = c
    /\ invoices[data.invoice_id].customer_id \in {0, data.customer_id}

\* a request that names a supplier and a purchase of the tenant that go together
AddressesPurchase(c, data) ==
    /\ data.supplier_id \in 1..Len(suppliers)
    /\ suppliers[data.supplier_id].company_id = c
    /\ data.purchase_id \in 1..Len(purchases)
    /\ purchases[data.purchase_id].company_id = c
    /\ purchases[data.purchase_id].supplier_id = data.supplier_id

\* what the claim asks of the response r to a forward payment of `amount`
\* against a document with the given net paid and total
BoundaryRespected(r, amount, net_paid, total, status_after) ==
    /\ (r.e.detail = "Overpayment") <=> (net_paid + amount > total)
    /\ r.e.detail = "Overpayment" => r.e.code = 400 /\ r.tx.c = Database
    /\ net_paid + amount = total =>
          /\ r.e.code = 200
          /\ Len(r.tx.c.payments) = Len(payments) + 1
          /\ status_after = "paid"

\* C4: in every reachable state, every forward payment against a document is
\* rejected with the overpayment error exactly when net paid plus its amount
\* exceeds the total; the rejection persists nothing and leaves the status as
\* it was; a payment that makes net paid equal to the total is accepted,
\* stored, and sets the status to paid.
C4_OverpaymentBoundary ==
    /\ \A c \in Companies, data \in PaymentPayloads :
          data.payment_type = "received" /\ AddressesInvoice(c, data) =>
              LET r == receive_payment(Database, c, data) IN
              BoundaryRespected(r, data.amount,
                                InvoiceNetPaid(payments, data.invoice_id),
                                invoices[data.invoice_id].total,
                                r.tx.c.invoices[data.invoice_id].status)
    /\ \A c \in Companies, data \in SupplierPaymentPayloads :
          AddressesPurchase(c, data) =>
              LET r == pay_supplier(Database, c, data) IN
              BoundaryRespected(r, data.amount,
                                PurchaseNetPaid(payments, data.purchase_id),
                                purchases[data.purchase_id].total_amount,
                                r.tx.c.purchases[data.purchase_id].status)

\* C4 happens: an invoice was paid to exactly its total, which made it paid,
\* and has just refused one more payment, which left it as it was
C4_RefusedAfterPaidInFull ==
    /\ last.op = "receive_payment"
    /\ last.detail = "Overpayment"
    /\ last.avail = 0
    /\ InvoiceNetPaid(payments, last.ref) = invoices[last.ref].total
    /\ invoices[last.ref].status = "paid"

\* the step in which session s commits a payment that fitted the invoice when
\* s checked it, after another payment that fitted as well was committed
\* behind its back, and the two together exceed the invoice total
BothCommitted(s) ==
    /\ reqs[s].pc = "checked"
    /\ reqs'[s].pc = "idle"
    /\ Len(payments') = Len(payments) + 1
    /\ LET d == reqs[s].data
           i == d.invoice_id
           before == InvoiceNetPaid(SubSeq(payments, 1, reqs[s].seen), i)
       IN /\ i # 0
          /\ d.payment_type = "received"
          /\ d.amount > 0
          /\ before + d.amount <= invoices[i].total
          /\ \E k \in (reqs[s].seen + 1)..Len(payments) :
                /\ payments[k].invoice_id = i
                /\ payments[k].payment_type = "received"
                /\ payments[k].amount > 0
                /\ before + payments[k].amount <= invoices[i].total
                /\ before + payments[k].amount + d.amount > invoices[i].total
          /\ InvoiceNetPaid(payments', i) > invoices'[i].total

\* C5: of two concurrent receive_payment requests against one invoice, each
\* fitting the remaining amount alone and the two exceeding the total
\* together, never both pass the overpayment check and commit.
C5_ConcurrentPaymentsSerialised == [][\A s \in Sessions : ~BothCommitted(s)]_vars

\* the quantities the first `upto` line items move for one entity, 0 elsewhere
LineQuantities(items, id_field, qty_field, id, upto) ==
    [j \in 1..upto |-> IF items[j][id_field] = id THEN items[j][qty_field] ELSE 0]

Moved(items, id_field, qty_field, id, upto) ==
    SumSeq(LineQuantities(items, id_field, qty_field, id, upto), 1)

\* the movement row a line item of a document calls for
MovementRow(c, product_id, raw_material_id, movement_type, quantity_change, reference_type, reference_id) ==
    [company_id |-> c, product_id |-> product_id, raw_material_id |-> raw_material_id,
     movement_type |-> movement_type, quantity_change |-> quantity_change,
     reference_type |-> reference_type, reference_id |-> reference_id]

\* line i of an invoice request fails: its product is not the tenant's, or it
\* asks for more than the stock left when the line is reached
SaleLineFails(c, items, i) ==
    LET p == items[i].product_id IN
    \/ p \notin 1..Len(products)
    \/ products[p].company_id # c
    \/ items[i].quantity > products[p].stock - Moved(items, "product_id", "quantity", p, i - 1)

\* C6: in every reachable state, every invoice request with a failing line
\* item (unknown product, or more than the stock) is refused and persists
\* nothing: no invoice, no item, no stock change, no movement.
C6_InvoiceAllOrNothing ==
    \A c \in Companies, payload \in InvoicePayloads :
        (\E i \in 1..Len(payload.items) : SaleLineFails(c, payload.items, i)) =>
            LET r == create_invoice(Database, c, payload) IN
            /\ r.e.code >= 400
            /\ r.tx.c = Database

\* C6 happens: an invoice was refused at a line that found less stock than is
\* stored now, so an earlier line of it had been deducted and was undone
C6_RefusedAfterEarlierLine ==
    /\ last.op = "create_invoice"
    /\ last.detail = "Insufficient stock"
    /\ last.avail < products[last.ref].stock
    /\ invoices = <<>>
    /\ stockMovements = <<>>

\* a batch request that is in order but for the stock: the finished product
\* and every consumed material are the tenant's, there is at least one item,
\* the quantity produced is positive
BatchInOrder(c, data) ==
    /\ data.finished_product_id \in 1..Len(products)
    /\ products[data.finished_product_id].company_id = c
    /\ data.items # <<>>
    /\ data.quantity_produced > 0
    /\ \A i \in 1..Len(data.items) :
          /\ data.items[i].raw_material_id \in 1..Len(rawMaterials)
          /\ rawMaterials[data.items[i].raw_material_id].company_id = c

\* line i of a batch asks for more than the stock left when it is reached
ConsumptionExceeds(items, i) ==
    LET m == items[i].raw_material_id IN
    items[i].quantity_used >
        rawMaterials[m].stock_quantity
        - Moved(items, "raw_material_id", "quantity_used", m, i - 1)

\* C7: in every reachable state, every production batch with a consumed
\* material whose quantity_used exceeds the material's stock is refused with
\* the insufficient-stock error and leaves every stock field and the movement
\* ledger as they were.
C7_BatchRefusedUntouched ==
    \A c \in Companies, data \in BatchPayloads :
        (/\ BatchInOrder(c, data)
         /\ \E i \in 1..Len(data.items) : ConsumptionExceeds(data.items, i)) =>
            LET r == create_production_batch(Database, c, data) IN
            /\ r.e.code = 422
            /\ r.e.detail = "Insufficient stock"
            /\ r.tx.c = Database

\* C7 happens: a batch was refused at a material that had less stock than is
\* stored now, so an earlier line of the batch had consumed it and was undone
C7_RefusedAfterEarlierLine ==
    /\ last.op = "create_production_batch"
    /\ last.code = 422
    /\ last.detail = "Insufficient stock"
    /\ last.avail < rawMaterials[last.ref].stock_quantity
    /\ productionBatches = <<>>
    /\ stockMovements = <<>>

\* C8: in every reachable state, every invoice request that succeeds lowers
\* each product's stock by the quantities sold of it and appends one sale
\* movement per line item, of minus the line's quantity, referencing the
\* new invoice; nothing else is appended to the movement ledger.
C8_SaleMovesStock ==
    \A c \in Companies, payload \in InvoicePayloads :
        LET r == create_invoice(Database, c, payload)
            items == payload.items
            n == Len(stockMovements)
        IN r.e.code = 201 =>
            /\ r.id = Len(invoices) + 1
            /\ Len(r.tx.c.invoices) = r.id
            /\ Len(r.tx.c.products) = Len(products)
            /\ \A p \in 1..Len(products) :
                  r.tx.c.products[p].stock =
                      products[p].stock - Moved(items, "product_id", "quantity", p, Len(items))
            /\ Len(r.tx.c.stockMovements) = n + Len(items)
            /\ SubSeq(r.tx.c.stockMovements, 1, n) = stockMovements
            /\ \A i \in 1..Len(items) :
                  r.tx.c.stockMovements[n + i] =
                      MovementRow(c, items[i].product_id, 0, "sale",
                                  0 - items[i].quantity, "invoice", r.id)

\* C8 happens: an invoice with two lines of one product was created and sold
\* the product out
C8_TwoLinesSoldOut ==
    /\ last.op = "create_invoice"
    /\ last.code = 201
    /\ \E p \in 1..Len(products) :
          /\ products[p].stock = 0
          /\ Cardinality({k \in 1..Len(stockMovements) :
                 /\ stockMovements[k].product_id = p
                 /\ stockMovements[k].movement_type = "sale"
                 /\ stockMovements[k].quantity_change < 0
                 /\ stockMovements[k].reference_id = last.id}) = 2

\* C9: in every reachable state, every production batch that succeeds
\* appends one production_out movement per consumed item, of minus its
\* quantity_used, and one production_in movement of quantity_produced, all
\* referencing the new batch, lowers each material's stock by what was used
\* of it and raises the finished product's stock by quantity_produced.
C9_BatchMovesStock ==
    \A c \in Companies, data \in BatchPayloads :
        LET r == create_production_batch(Database, c, data)
            items == data.items
            n == Len(stockMovements)
        IN r.e.code = 201 =>
            /\ r.id = Len(productionBatches) + 1
            /\ Len(r.tx.c.rawMaterials) = Len(rawMaterials)
            /\ \A m \in 1..Len(rawMaterials) :
                  r.tx.c.rawMaterials[m].stock_quantity =
                      rawMaterials[m].stock_quantity
                      - Moved(items, "raw_material_id", "quantity_used", m, Len(items))
            /\ Len(r.tx.c.products) = Len(products)
            /\ \A p \in 1..Len(products) :
                  r.tx.c.products[p].stock =
                      products[p].stock
                      + (IF p = data.finished_product_id THEN data.quantity_produced ELSE 0)
            /\ Len(r.tx.c.stockMovements) = n + Len(items) + 1
            /\ SubSeq(r.tx.c.stockMovements, 1, n) = stockMovements
            /\ \A i \in 1..Len(items) :
                  r.tx.c.stockMovements[n + i] =
                      MovementRow(c, 0, items[i].raw_material_id, "production_out",
                                  0 - items[i].quantity_used, "production_batch", r.id)
            /\ r.tx.c.stockMovements[n + Len(items) + 1] =
                  MovementRow(c, data.finished_product_id, 0, "production_in",
                              data.quantity_produced, "production_batch", r.id)

\* C9 happens: a batch was produced from two lines of material
C9_BatchProduced ==
    /\ last.op = "create_production_batch"
    /\ last.code = 201
    /\ Cardinality({k \in 1..Len(stockMovements) :
           /\ stockMovements[k].movement_type = "production_out"
           /\ stockMovements[k].quantity_change < 0
           /\ stockMovements[k].reference_id = last.id}) = 2
    /\ \E k \in 1..Len(stockMovements) :
          /\ stockMovements[k].movement_type = "production_in"
          /\ stockMovements[k].quantity_change > 0
          /\ stockMovements[k].reference_id = last.id
          /\ products[stockMovements[k].product_id].stock >= stockMovements[k].quantity_change

\* the last line item of a material in a purchase, 0 when there is none
LastLineOf(items, m) ==
    LET lines == {i \in 1..Len(items) : items[i].raw_material_id = m}
    IN IF lines = {} THEN 0 ELSE CHOOSE i \in lines : \A j \in lines : j <= i

\* C10: in every reachable state, every purchase that succeeds raises each
\* material's stock by the quantities bought of it, appends one purchase
\* movement per line item, of the line's quantity, referencing the new
\* purchase, and leaves each bought material with the cost_price of its last
\* line item in the purchase.
C10_PurchaseMovesStock ==
    \A c \in Companies, data \in PurchasePayloads :
        LET r == create_purchase(Database, c, data)
            items == data.items
            n == Len(stockMovements)
        IN r.e.code = 201 =>
            /\ r.id = Len(purchases) + 1
            /\ Len(r.tx.c.rawMaterials) = Len(rawMaterials)
            /\ \A m \in 1..Len(rawMaterials) :
                  /\ r.tx.c.rawMaterials[m].stock_quantity =
                        rawMaterials[m].stock_quantity
                        + Moved(items, "raw_material_id", "quantity", m, Len(items))
                  /\ r.tx.c.rawMaterials[m].cost_price =
                        IF LastLineOf(items, m) = 0 THEN rawMaterials[m].cost_price
                        ELSE items[LastLineOf(items, m)].cost_price
            /\ Len(r.tx.c.stockMovements) = n + Len(items)
            /\ SubSeq(r.tx.c.stockMovements, 1, n) = stockMovements
            /\ \A i \in 1..Len(items) :
                  r.tx.c.stockMovements[n + i] =
                      MovementRow(c, 0, items[i].raw_material_id, "purchase",
                                  items[i].quantity, "purchase", r.id)

\* C10 happens: a purchase bought one material in two lines at two prices
\* and the material carries the price of the second line
C10_TwoPricesLastWins ==
    /\ last.op = "create_purchase"
    /\ last.code = 201
    /\ \E i, j \in 1..Len(purchaseItems) :
          /\ i < j
          /\ purchaseItems[i].purchase_id = last.id
          /\ purchaseItems[j].purchase_id = last.id
          /\ purchaseItems[i].raw_material_id = purchaseItems[j].raw_material_id
          /\ purchaseItems[i].cost_price # purchaseItems[j].cost_price
          /\ rawMaterials[purchaseItems[j].raw_material_id].cost_price
                = purchaseItems[j].cost_price
          /\ Cardinality({k \in 1..Len(stockMovements) :
                 /\ stockMovements[k].movement_type = "purchase"
                 /\ stockMovements[k].reference_id = last.id}) = 2

\* C11: in every reachable state the stock of every product and the
\* stock_quantity of every raw material is at least zero.
C11_StockNonNegative ==
    /\ \A p \in 1..Len(products) : products[p].stock >= 0
    /\ \A m \in 1..Len(rawMaterials) : rawMaterials[m].stock_quantity >= 0

\* arguments log_stock_movement has to refuse
BadMovementArgs(a) ==
    \/ a.product_id # 0 /\ a.raw_material_id # 0
    \/ a.product_id = 0 /\ a.raw_material_id = 0
    \/ a.movement_type \notin {"purchase", "production_in", "production_out", "sale", "adjustment"}

\* C12: in every reachable state, log_stock_movement called with both
\* entities, with neither, or with a movement type outside the five raises
\* and stages no row; and every stock movement row references exactly one of
\* product and raw material and carries one of the five movement types.
C12_MovementWellFormed ==
    /\ \A c \in Companies, a \in MovementArgs :
          BadMovementArgs(a) =>
              LET tx == Begin(Database)
                  lg == log_stock_movement(tx, c, a.product_id, a.raw_material_id,
                                           a.movement_type, a.quantity_change, "adjustment", 0)
              IN lg.err /\ lg.tx = tx
    /\ \A k \in 1..Len(stockMovements) :
          /\ (stockMovements[k].product_id # 0) # (stockMovements[k].raw_material_id # 0)
          /\ stockMovements[k].movement_type
                \in {"purchase", "production_in", "production_out", "sale", "adjustment"}

\* C12 happens: with a movement on the ledger, a call was refused and the
\* ledger holds no more than it did
C12_RefusedCall ==
    /\ last.op = "log_stock_movement"
    /\ last.code = 500
    /\ Len(stockMovements) = 1

\* C13: no step changes or removes a stock movement that is on the ledger;
\* the ledger only grows at its end.
C13_LedgerAppendOnly ==
    [][/\ Len(stockMovements') >= Len(stockMovements)
       /\ SubSeq(stockMovements', 1, Len(stockMovements)) = stockMovements]_vars

\* C13 happens: the delete of a product that movements reference was asked
\* for and refused, the movements being still there
C13_DeleteRefused ==
    /\ last.op = "delete_product"
    /\ last.code = 500
    /\ \E k \in 1..Len(stockMovements) : stockMovements[k].product_id = last.ref

\* the status the recomputation leaves on an invoice / on a purchase
RecomputedInvoiceStatus(i) ==
    update_invoice_status_from_payments(Begin(Database), i).s.invoices[i].status

RecomputedPurchaseStatus(u) ==
    update_purchase_status_from_payments(Begin(Database), u).s.purchases[u].status

\* the three thresholds as the claim words them
ThresholdsAsWorded(status, net_paid, total) ==
    /\ net_paid >= total => status = "paid"
    /\ net_paid > 0 /\ net_paid < total => status = "partially_paid"
    /\ net_paid <= 0 => status = "unpaid"

\* the thresholds with paid taking precedence
ThresholdsPaidFirst(status, net_paid, total) ==
    /\ net_paid >= total => status = "paid"
    /\ net_paid > 0 /\ net_paid < total => status = "partially_paid"
    /\ net_paid <= 0 /\ net_paid < total => status = "unpaid"

\* C14 as worded: in every reachable state the recomputation sets every
\* document to paid when net paid >= total, to partially_paid when
\* 0 < net paid < total and to unpaid when net paid <= 0.
C14_ThresholdsAsWorded ==
    /\ \A i \in 1..Len(invoices) :
          ThresholdsAsWorded(RecomputedInvoiceStatus(i),
                             InvoiceNetPaid(payments, i), invoices[i].total)
    /\ \A u \in 1..Len(purchases) :
          ThresholdsAsWorded(RecomputedPurchaseStatus(u),
                             PurchaseNetPaid(payments, u), purchases[u].total_amount)

\* C14, amended: in every reachable state the recomputation sets every
\* document to paid when net paid >= total, to partially_paid when
\* 0 < net paid < total and to unpaid when net paid <= 0 and net paid < total.
C14_StatusThresholds ==
    /\ \A i \in 1..Len(invoices) :
          ThresholdsPaidFirst(RecomputedInvoiceStatus(i),
                              InvoiceNetPaid(payments, i), invoices[i].total)
    /\ \A u \in 1..Len(purchases) :
          ThresholdsPaidFirst(RecomputedPurchaseStatus(u),
                              PurchaseNetPaid(payments, u), purchases[u].total_amount)

\* C14 happens: a refund and a payment that cancel out were recorded on an
\* invoice of total 0, and the recomputation left it paid
C14_ZeroTotalSettled ==
    /\ last.op = "receive_payment"
    /\ last.code = 200
    /\ \E i \in 1..Len(invoices) :
          /\ invoices[i].total = 0
          /\ InvoiceNetPaid(payments, i) = 0
          /\ \E k \in 1..Len(payments) : payments[k].invoice_id = i
          /\ \A k \in 1..Len(payments) : payments[k].invoice_id = i => payments[k].amount > 0
          /\ invoices[i].status = "paid"

\* the recomputation on a session leaves everything as it was, but for the
\* status of the one document, and a second run leaves what the first left
RecomputationIdempotent(once, twice, table, id) ==
    /\ twice = once
    /\ once.c = Database
    /\ once.s = [Database EXCEPT ![table][id].status = once.s[table][id].status]

\* C15: in every reachable state, for every invoice and every purchase, the
\* status recomputation run twice in a row on the same payment history
\* yields what one run yields, and it changes nothing but the status field
\* of that document.
C15_RecomputationIdempotent ==
    /\ \A i \in 1..Len(invoices) :
          LET once == update_invoice_status_from_payments(Begin(Database), i)
              twice == update_invoice_status_from_payments(once, i)
          IN RecomputationIdempotent(once, twice, "invoices", i)
    /\ \A u \in 1..Len(purchases) :
          LET once == update_purchase_status_from_payments(Begin(Database), u)
              twice == update_purchase_status_from_payments(once, u)
          IN RecomputationIdempotent(once, twice, "purchases", u)

\* C15 happens: an invoice with a payment on it carries a status set by hand
\* that the recomputation would change
C15_RecomputationWouldAct ==
    \E i \in 1..Len(invoices) :
        /\ \E k \in 1..Len(payments) : payments[k].invoice_id = i
        /\ InvoiceNetPaid(payments, i) > 0
        /\ invoices[i].status = "unpaid"
        /\ RecomputedInvoiceStatus(i) = "partially_paid"

\* this step appends a payment linked to the document
PaymentRecorded(field, id) ==
    /\ Len(payments') = Len(payments) + 1
    /\ payments'[Len(payments')][field] = id

\* C16: the status of an invoice or of a purchase changes only in a step
\* that records a payment against that document or, for an invoice, in a
\* step that cancels it.
C16_StatusOnlyByPayment ==
    [][/\ \A i \in 1..Len(invoices) :
             invoices'[i].status # invoices[i].status =>
                 \/ PaymentRecorded("invoice_id", i)
                 \/ invoices'[i].status = "cancelled"
       /\ \A u \in 1..Len(purchases) :
             purchases'[u].status # purchases[u].status =>
                 PaymentRecorded("purchase_id", u)]_vars

StatusRank(status) ==
    CASE status = "unpaid" -> 0
      [] status = "partially_paid" -> 1
      [] status = "paid" -> 2
      [] OTHER -> 3

\* from paid to partially_paid or unpaid, or from partially_paid to unpaid
Backward(old, new) ==
    /\ StatusRank(old) <= 2
    /\ StatusRank(new) < StatusRank(old)

\* C17 as worded: in no step does the status of an invoice or of a purchase
\* go from paid to partially_paid or unpaid, or from partially_paid to unpaid.
C17_StatusNeverBackward ==
    [][/\ \A i \in 1..Len(invoices) : ~Backward(invoices[i].status, invoices'[i].status)
       /\ \A u \in 1..Len(purchases) : ~Backward(purchases[u].status, purchases'[u].status)]_vars

\* this step records a forward payment of positive amount on a document
\* that carried the status derived from its payments
ForwardPaymentOnSettled(field, id, forward, status, net_paid, total) ==
    /\ PaymentRecorded(field, id)
    /\ payments'[Len(payments')].payment_type = forward
    /\ payments'[Len(payments')].amount > 0
    /\ status = DerivedStatus(net_paid, total)

\* C17, amended: the status of a document goes backward only in a step that
\* records a payment against it, which leaves it with the status derived from
\* its net paid, or, for an invoice, in a direct update through the status
\* endpoint; and a forward payment of positive amount on a document that
\* carried the derived status never moves it backward.
C17_BackwardOnlyByPaymentOrHand ==
    [][/\ \A i \in 1..Len(invoices) :
             /\ Backward(invoices[i].status, invoices'[i].status) =>
                   \/ /\ PaymentRecorded("invoice_id", i)
                      /\ invoices'[i].status =
                            DerivedStatus(InvoiceNetPaid(payments', i), invoices'[i].total)
                   \/ /\ last'.op = "update_invoice_status"
                      /\ last'.id = i
                      /\ payments' = payments
             /\ ForwardPaymentOnSettled("invoice_id", i, "received", invoices[i].status,
                                        InvoiceNetPaid(payments, i), invoices[i].total)
                   => ~Backward(invoices[i].status, invoices'[i].status)
       /\ \A u \in 1..Len(purchases) :
             /\ Backward(purchases[u].status, purchases'[u].status) =>
                   /\ PaymentRecorded("purchase_id", u)
                   /\ purchases'[u].status =
                         DerivedStatus(PurchaseNetPaid(payments', u), purchases'[u].total_amount)
             /\ ForwardPaymentOnSettled("purchase_id", u, "paid", purchases[u].status,
                                        PurchaseNetPaid(payments, u), purchases[u].total_amount)
                   => ~Backward(purchases[u].status, purchases'[u].status)]_vars

\* C17 happens: an invoice was paid in full, then a refund of a positive
\* amount was recorded on it and its status fell
C17_RefundMovedStatusBack ==
    /\ last.op = "receive_payment"
    /\ last.code = 200
    /\ Len(payments) = 2
    /\ payments[1].payment_type = "received"
    /\ payments[2].payment_type = "refund"
    /\ payments[2].amount > 0
    /\ payments[2].invoice_id = payments[1].invoice_id
    /\ payments[1].invoice_id # 0
    /\ payments[1].amount = invoices[payments[1].invoice_id].total
    /\ invoices[payments[1].invoice_id].status \in {"partially_paid", "unpaid"}

\* C18: a step that records a payment or a refund against a cancelled
\* invoice leaves the invoice cancelled.
C18_CancelledStaysCancelled ==
    [][\A i \in 1..Len(invoices) :
          invoices[i].status = "cancelled" /\ PaymentRecorded("invoice_id", i) =>
              invoices'[i].status = "cancelled"]_vars

\* payment row p names a document of `documents` that is its tenant's and,
\* through `party`, its counterparty's
DocumentOfParty(p, documents, id, party) ==
    /\ id \in 1..Len(documents)
    /\ documents[id].company_id = p.company_id
    /\ documents[id][party] = p[party]

\* C19: every persisted payment that names a document names one that belongs
\* to the payment's tenant and to the payment's counterparty: an invoice of
\* the named customer, a purchase of the named supplier.
C19_DocumentOfNamedParty ==
    \A k \in 1..Len(payments) :
        LET p == payments[k] IN
        /\ p.invoice_id # 0 => DocumentOfParty(p, invoices, p.invoice_id, "customer_id")
        /\ p.purchase_id # 0 => DocumentOfParty(p, purchases, p.purchase_id, "supplier_id")

\* C20: every persisted payment has an amount above zero and one of the four
\* payment types.
C20_PaymentsWellFormed ==
    \A k \in 1..Len(payments) :
        /\ payments[k].amount > 0
        /\ payments[k].payment_type \in {"received", "refund", "paid", "supplier_refund"}

\* ------------------------------------------- payments and their parties
DeleteCustomer ==
    \E c \in Companies, id \in 1..3 :
        Serve("delete_customer", delete_customer(Database, c, id))

DeleteSupplier ==
    \E c \in Companies, id \in 1..3 :
        Serve("delete_supplier", delete_supplier(Database, c, id))

NextParties == ReceivePayment \/ PaySupplier \/ DeleteCustomer \/ DeleteSupplier

SpecParties == StartFrom(Books(1, 2)) /\ [][NextParties]_vars

\* C21: no step changes or removes a payment row that exists; a step only
\* appends rows.
C21_PaymentsImmutable ==
    [][/\ Len(payments') >= Len(payments)
       /\ \A k \in 1..Len(payments) : payments'[k] = payments[k]]_vars

\* ------------------------------------------------- the ledgers at work
\* One-line documents and payments of tenant A, enough to tell the rows of a
\* ledger apart by amount.  payment_type is any string: "advance" stands for
\* the strings that are neither a payment nor a refund.
AccountInvoices ==
    [customer_id : {0, 1}, tax_percent : {0}, discount : {0},
     items : {<<[product_id |-> 1, quantity |-> q]>> : q \in {1, 2}}]
AccountPurchases ==
    [supplier_id : {1},
     items : {<<[raw_material_id |-> 1, quantity |-> 2, cost_price |-> 1]>>}]
AccountPayments ==
    [customer_id : {1}, invoice_id : {0, 1}, amount : {1},
     payment_type : {"received", "refund", "advance"}]
AccountSupplierPayments == [supplier_id : {1}, purchase_id : {0, 1}, amount : {1}]

CreateAccountInvoice ==
    /\ Len(invoices) + Len(purchases) < MaxAccountDocuments
    /\ \E payload \in AccountInvoices :
          Serve("create_invoice", create_invoice(Database, "A", payload))

CreateAccountPurchase ==
    /\ Len(invoices) + Len(purchases) < MaxAccountDocuments
    /\ \E data \in AccountPurchases :
          Serve("create_purchase", create_purchase(Database, "A", data))

ReceiveAccountPayment ==
    /\ Len(payments) < MaxPayments
    /\ \E data \in AccountPayments :
          Serve("receive_payment", receive_payment(Database, "A", data))

PayAccountSupplier ==
    /\ Len(payments) < MaxPayments
    /\ \E data \in AccountSupplierPayments :
          Serve("pay_supplier", pay_supplier(Database, "A", data))

CancelAccountInvoice ==
    \E id \in 1..2 :
        Serve("update_invoice_status", update_invoice_status(Database, "A", id, "cancelled"))

\* the response of a ledger query: the tables stay, `last` carries the body
Answer(op, id, r) ==
    /\ last' = [op |-> op, code |-> r.code, detail |-> r.detail, ref |-> id,
                avail |-> 0, id |-> 0, body |-> r]
    /\ UNCHANGED <<tables, reqs, chat>>

GetCustomerLedger ==
    \E id \in {1, 3} :
        Answer("get_customer_ledger", id, get_customer_ledger(Database, "A", id))

GetSupplierLedger ==
    \E id \in {1, 3} :
        Answer("get_supplier_ledger", id, get_supplier_ledger(Database, "A", id))

ListCustomers ==
    Answer("get_customers_with_balances", 0,
           [code |-> 200, detail |-> "",
            balances |-> get_customers_with_balances(Database, "A")])

ListSuppliers ==
    Answer("get_suppliers_with_balances", 0,
           [code |-> 200, detail |-> "",
            balances |-> get_suppliers_with_balances(Database, "A")])

\* Tenant A's product and raw material in stock, no document yet.
Counter ==
    LET d1 == create_product(EmptyDb, "A", [price |-> 1, stock |-> 5]).tx.c
        d2 == create_raw_material(d1, "A", [stock_quantity |-> 0, cost_price |-> 1]).tx.c
    IN d2

NextAccounts ==
    \/ CreateAccountInvoice
    \/ CreateAccountPurchase
    \/ ReceiveAccountPayment
    \/ PayAccountSupplier
    \/ CancelAccountInvoice
    \/ GetCustomerLedger
    \/ GetSupplierLedger
    \/ ListCustomers
    \/ ListSuppliers

SpecAccounts == StartFrom(Counter) /\ [][NextAccounts]_vars

\* the statement rows rows[1..k] add up to the balance stamped on row k
BalanceRunsTo(rows, k) ==
    rows[k].running_balance = SumSeq([j \in 1..k |-> rows[j].debit - rows[j].credit], 1)

\* a ledger as the statement describes it: rows in ascending order of their
\* timestamps, one row per document and per payment of the counterparty, a
\* document a debit of its total, a forward payment a credit of its amount, a
\* refund a debit of its amount, and on every row the balance so far
StatementAsDescribed(r, documents, kind, total, forward, refund, party, id) ==
    LET rows == r.transactions IN
    /\ \A k \in 1..(Len(rows) - 1) : rows[k].date <= rows[k + 1].date
    /\ \A k \in 1..Len(rows) : BalanceRunsTo(rows, k)
    /\ \A d \in 1..Len(documents) :
          documents[d][party] = id /\ documents[d].status # "cancelled" =>
              \E k \in 1..Len(rows) :
                  /\ rows[k].type = kind /\ rows[k].document_id = d
                  /\ rows[k].date = documents[d].created_at
                  /\ rows[k].debit = documents[d][total] /\ rows[k].credit = 0
    /\ \A p \in 1..Len(payments) :
          payments[p][party] = id =>
              \E k \in 1..Len(rows) :
                  /\ rows[k].type # kind /\ rows[k].reference = p
                  /\ rows[k].date = payments[p].created_at
                  /\ payments[p].payment_type = forward =>
                        rows[k].credit = payments[p].amount /\ rows[k].debit = 0
                  /\ payments[p].payment_type = refund =>
                        rows[k].debit = payments[p].amount /\ rows[k].credit = 0
    /\ Len(rows) = Cardinality({d \in 1..Len(documents) :
                                   documents[d][party] = id
                                   /\ documents[d].status # "cancelled"})
                   + Cardinality({p \in 1..Len(payments) : payments[p][party] = id})

\* C22: in every reachable state, the ledger of every customer and of every
\* supplier lists the counterparty's documents and payments in ascending
\* order of their timestamps, each document as a debit of its total, each
\* received or paid payment as a credit, each refund as a debit, and stamps
\* on the k-th row the sum of debit minus credit over rows 1..k.
C22_LedgerOrderedAndRunning ==
    \A c \in Companies, id \in 1..3 :
        /\ LET r == get_customer_ledger(Database, c, id) IN
           r.code = 200 =>
               StatementAsDescribed(r, invoices, "invoice", "total",
                                    "received", "refund", "customer_id", id)
        /\ LET r == get_supplier_ledger(Database, c, id) IN
           r.code = 200 =>
               StatementAsDescribed(r, purchases, "purchase", "total_amount",
                                    "paid", "supplier_refund", "supplier_id", id)

\* C22 happens: the ledger just returned reads invoice, payment, invoice,
\* with the balance going up, down and up again
C22_PaymentBetweenInvoices ==
    /\ last.op = "get_customer_ledger"
    /\ last.code = 200
    /\ Len(last.body.transactions) = 3
    /\ [k \in 1..3 |-> last.body.transactions[k].type] = <<"invoice", "payment", "invoice">>
    /\ [k \in 1..3 |-> last.body.transactions[k].running_balance] = <<2, 1, 3>>

\* the summary of a ledger agrees with its last running balance
SummaryAgrees(r) ==
    LET rows == r.transactions
        s == r.summary
    IN /\ s.outstanding = s.total_billed - s.total_paid + s.total_refunded
       /\ s.outstanding = IF rows = <<>> THEN 0 ELSE rows[Len(rows)].running_balance

TwoTenants ==
    LET d1 == Workshop("B", 2)
        d2 == update_product(d1, "A", 1, [set |-> {"stock"}, price |-> 1, stock |-> 2]).tx.c
        d3 == update_product(d2, "B", 2, [set |-> {"stock"}, price |-> 1, stock |-> 2]).tx.c
        d4 == create_invoice(d3, "A",
                  [customer_id |-> 1, tax_percent |-> 0, discount |-> 0,
                   items |-> <<[product_id |-> 1, quantity |-> 1]>>]).tx.c
        d5 == create_invoice(d4, "B",
                  [customer_id |-> 3, tax_percent |-> 0, discount |-> 0,
                   items |-> <<[product_id |-> 2, quantity |-> 1]>>]).tx.c
        d6 == create_purchase(d5, "B",
                  [supplier_id |-> 3,
                   items |-> <<[raw_material_id |-> 2, quantity |-> 1,
                                cost_price |-> 1]>>]).tx.c
    IN d6

NextTenants ==
    \/ ReceivePayment
    \/ PaySupplier
    \/ GetCustomerLedger
    \/ GetSupplierLedger

SpecTenants == StartFrom(TwoTenants) /\ [][NextTenants]_vars

\* the row exists and is another tenant's than c
Foreign(table, id, c) ==
    /\ id \in 1..Len(table)
    /\ table[id].company_id \notin {c, ""}

\* the lines of a request name a row of another tenant
LineForeign(table, items, field, c) ==
    \E i \in 1..Len(items) : Foreign(table, items[i][field], c)

\* the request failed, as not found when `first` says that the other tenant's
\* row is the first thing the handler looks up, and committed nothing
Shut(r, first) ==
    /\ r.e.code >= 400
    /\ first => r.e.code = 404
    /\ r.tx.c = Database

C25_LineQuantitiesPositive ==
    /\ \A k \in 1..Len(invoiceItems) : invoiceItems[k].quantity > 0
    /\ \A k \in 1..Len(purchaseItems) : purchaseItems[k].quantity > 0
    /\ \A k \in 1..Len(productionItems) : productionItems[k].quantity_used > 0

\* ------------------------------------------------- batches that do not divide
\* Batches of three units (or none), so that the cost per unit has to be
\* rounded.
CostedBatches ==
    [finished_product_id : ProductIds, quantity_produced : {0, 3},
     items : ItemSeqs([raw_material_id : RawMaterialIds, quantity_used : {1, 2}])]

CreateCostedBatch ==
    /\ Len(productionBatches) < MaxBatches
    /\ \E c \in Companies, data \in CostedBatches :
          Serve("create_production_batch", create_production_batch(Database, c, data))

NextCosting == UpdateRawMaterial \/ CreateCostedBatch

SpecCosting == StartFrom(Workshop("A", 2)) /\ [][NextCosting]_vars

\* what the consumed materials cost at the prices of the state
ConsumptionCost(items) ==
    SumSeq([i \in 1..Len(items) |->
               items[i].quantity_used * rawMaterials[items[i].raw_material_id].cost_price], 1)

\* hundredths is total / quantity to the nearest hundredth
NearestHundredth(hundredths, total, quantity) ==
    /\ 2 * (100 * total - hundredths * quantity) <= quantity
    /\ 2 * (hundredths * quantity - 100 * total) <= quantity

\* C26: in every reachable state, every production batch that succeeds
\* stores as total_cost the sum over its items of quantity_used times the
\* material's cost_price at that moment and as cost_per_unit total_cost
\* divided by quantity_produced, rounded to two decimals; a batch with
\* quantity_produced <= 0 fails and leaves every table as it was.
C26_BatchCostRounded ==
    \A c \in Companies, data \in CostedBatches :
        LET r == create_production_batch(Database, c, data) IN
        /\ r.e.code = 201 =>
              LET batch == r.tx.c.productionBatches[r.id] IN
              /\ batch.total_cost = ConsumptionCost(data.items)
              /\ NearestHundredth(batch.cost_per_unit, batch.total_cost,
                                  data.quantity_produced)
        /\ data.quantity_produced <= 0 =>
              r.e.code >= 400 /\ r.tx.c = Database

\* C26 happens: a batch of three units was produced from materials costing
\* 2 in all, at 0.67 a unit
C26_TwoThirdsRoundedUp ==
    /\ last.op = "create_production_batch"
    /\ last.code = 201
    /\ productionBatches[last.id].quantity_produced = 3
    /\ productionBatches[last.id].total_cost = 2
    /\ productionBatches[last.id].cost_per_unit = 67

\* ------------------------------------------------- conversations at work
\* how long ago the phone's session was set, -1 without a session
AgeOf(phone) ==
    IF phone \in DOMAIN sessionStore THEN clock - sessionStore[phone].timestamp ELSE 0 - 1

\* a call into the conversation store: `last` keeps the phone, the age the
\* session had when the call came, and what the call returned
Chat(op, phone, body, store) ==
    /\ sessionStore' = store
    /\ last' = [op |-> op, code |-> 0, detail |-> "", ref |-> 0, avail |-> 0, id |-> 0,
                phone |-> phone, age |-> AgeOf(phone), body |-> body]
    /\ UNCHANGED <<tables, reqs, clock>>

\* time passes, two and a half minutes or a second more at a time
Tick ==
    \E seconds \in {150, 151} :
        /\ clock + seconds <= MaxClock
        /\ clock' = clock + seconds
        /\ UNCHANGED <<tables, last, reqs, sessionStore>>

SetSession ==
    \E phone \in Phones, intent \in Intents, awaiting \in Awaited :
        Chat("set_session", phone, [found |-> FALSE],
             set_session(sessionStore, clock, phone, intent, awaiting))

GetSession ==
    \E phone \in Phones :
        LET r == get_session(sessionStore, clock, phone) IN
        Chat("get_session", phone, [found |-> r.found], r.store)

ResolveFollowUp ==
    \E phone \in Phones, cmd \in Texts :
        LET r == resolve_follow_up(sessionStore, clock, phone, cmd) IN
        Chat("resolve_follow_up", phone, [found |-> r.found], r.store)

NextChat == Tick \/ SetSession \/ GetSession \/ ResolveFollowUp

SpecChat == StartFrom(EmptyDb) /\ [][NextChat]_vars

\* C27: in every reachable state, get_session returns no session set more
\* than 300 seconds ago and returns every younger one as stored; looking up
\* an expired session removes it from the store; and resolve_follow_up on an
\* expired session returns None, whatever the message.
C27_SessionExpires ==
    \A phone \in Phones :
        LET r == get_session(sessionStore, clock, phone) IN
        /\ r.found => clock - r.session.timestamp <= SESSION_TIMEOUT
        /\ AgeOf(phone) \in 0..SESSION_TIMEOUT =>
              r.found /\ r.session = sessionStore[phone] /\ r.store = sessionStore
        /\ AgeOf(phone) > SESSION_TIMEOUT =>
              /\ ~r.found
              /\ phone \notin DOMAIN r.store
              /\ \A cmd \in Texts :
                    LET f == resolve_follow_up(sessionStore, clock, phone, cmd) IN
                    ~f.found /\ phone \notin DOMAIN f.store

\* C27 happens: a follow-up came 301 seconds after the question, was not
\* taken for an answer, and the session is gone
C27_FollowUpTooLate ==
    /\ last.op = "resolve_follow_up"
    /\ last.age = SESSION_TIMEOUT + 1
    /\ ~last.body.found
    /\ last.phone \notin DOMAIN sessionStore

\* C28: in every reachable state, an invoice succeeds only if, for every
\* product, the quantities of all its line items for that product add up to
\* at most the product's stock, and a production batch only if, for every raw
\* material, the quantities used in all its items add up to at most the
\* material's stock; the stock left is the stock before minus that sum, so
\* never below zero.
C28_CumulativeStockCheck ==
    \A c \in Companies :
        /\ \A payload \in InvoicePayloads :
              LET r == create_invoice(Database, c, payload) IN
              r.e.code = 201 =>
                  \A p \in 1..Len(products) :
                      LET sold == Moved(payload.items, "product_id", "quantity", p,
                                        Len(payload.items))
                      IN /\ sold <= products[p].stock
                         /\ r.tx.c.products[p].stock = products[p].stock - sold
                         /\ products[p].stock >= 0 => r.tx.c.products[p].stock >= 0
        /\ \A data \in BatchPayloads :
              LET r == create_production_batch(Database, c, data) IN
              r.e.code = 201 =>
                  \A m \in 1..Len(rawMaterials) :
                      LET used == Moved(data.items, "raw_material_id", "quantity_used", m,
                                        Len(data.items))
                      IN /\ used <= rawMaterials[m].stock_quantity
                         /\ r.tx.c.rawMaterials[m].stock_quantity
                                = rawMaterials[m].stock_quantity - used
                         /\ rawMaterials[m].stock_quantity >= 0 =>
                                r.tx.c.rawMaterials[m].stock_quantity >= 0

\* C28 happens: a batch was produced that used one raw material in two items
\* and took all the stock there was
C28_TwoItemsUsedItUp ==
    /\ last.op = "create_production_batch"
    /\ last.code = 201
    /\ Len(productionItems) = 2
    /\ productionItems[1].raw_material_id = productionItems[2].raw_material_id
    /\ productionItems[1].quantity_used > 0
    /\ productionItems[2].quantity_used > 0
    /\ rawMaterials[productionItems[1].raw_material_id].stock_quantity = 0

\* C29: in every reachable state, for every customer and every supplier of a
\* tenant, the outstanding amount in the list of balances equals the
\* outstanding amount of the summary of the counterparty's ledger.
C29_BalancesMatchLedgers ==
    \A c \in Companies :
        /\ LET balances == get_customers_with_balances(Database, c) IN
           \A k \in 1..Len(balances) :
               balances[k].outstanding
                   = get_customer_ledger(Database, c, balances[k].id).summary.outstanding
        /\ LET balances == get_suppliers_with_balances(Database, c) IN
           \A k \in 1..Len(balances) :
               balances[k].outstanding
                   = get_supplier_ledger(Database, c, balances[k].id).summary.outstanding

\* ------------------------------------------------ concurrent create_invoice
\* Two sessions serve POST /api/invoices at the same time.  A session first
\* counts the tenant's invoices for the number (InvoiceNumbered), later adds
\* the invoice under that number with its lines and commits (InvoiceCommit).
\* Nothing locks the count and invoice_number carries no unique constraint,
\* so between the two steps the other session may commit; whether the store
\* then fails the second commit depends on its isolation level
\* (InvoiceAbort).
Numbering == Cardinality({s \in Sessions : reqs[s].pc = "numbered"})

InvoiceNumbered(s) ==
    /\ reqs[s].pc = "idle"
    /\ Len(invoices) + Numbering < MaxAccountDocuments
    /\ \E c \in Companies, payload \in AccountInvoices :
          /\ reqs' = [reqs EXCEPT ![s] = [pc |-> "numbered", company_id |-> c,
                                          data |-> payload,
                                          seen |-> next_invoice_number(Database, c)]]
          /\ UNCHANGED <<tables, last, chat>>

InvoiceCommit(s) ==
    /\ reqs[s].pc = "numbered"
    /\ LET r == create_invoice(Database, reqs[s].company_id, reqs[s].data)
           numbered == IF r.e.code = 201
                       THEN [r.tx EXCEPT !.c.invoices[r.id].invoice_number = reqs[s].seen,
                                         !.s.invoices[r.id].invoice_number = reqs[s].seen]
                       ELSE r.tx
       IN /\ Persist(numbered)
          /\ last' = [op |-> "create_invoice", code |-> r.e.code, detail |-> r.e.detail,
                      ref |-> r.e.ref, avail |-> r.e.avail, id |-> r.id]
    /\ reqs' = [reqs EXCEPT ![s] = Idle]
    /\ UNCHANGED chat

InvoiceAbort(s) ==
    /\ reqs[s].pc = "numbered"
    /\ next_invoice_number(Database, reqs[s].company_id) # reqs[s].seen
    /\ last' = [op |-> "create_invoice", code |-> 500, detail |-> "serialization failure",
                ref |-> 0, avail |-> 0, id |-> 0]
    /\ reqs' = [reqs EXCEPT ![s] = Idle]
    /\ UNCHANGED <<tables, chat>>

NextNumbering ==
    \/ \E s \in Sessions : InvoiceNumbered(s)
    \/ \E s \in Sessions : InvoiceCommit(s)
    \/ \E s \in Sessions : InvoiceAbort(s)

SpecNumbering == StartFrom(Counter) /\ [][NextNumbering]_vars

\* no two rows of the table that belong to one tenant carry the same number
NumbersUnique(table, number) ==
    \A i, j \in 1..Len(table) :
        i # j /\ table[i].company_id = table[j].company_id /\ table[i].company_id # "" =>
            table[i][number] # table[j][number]

\* C30: in every reachable state, the invoice numbers of a tenant differ from
\* one another, and so do its purchase numbers and its batch numbers.
C30_DocumentNumbersUnique ==
    /\ NumbersUnique(invoices, "invoice_number")
    /\ NumbersUnique(purchases, "purchase_number")
    /\ NumbersUnique(productionBatches, "batch_number")

====
